---- MODULE Spec2Model ----
(***************************************************************************)
(* Pipeline graph rendering and synchronisation engine of the Attractor    *)
(* dashboard frontend: node-state derivation (lib/types.ts), topology      *)
(* extraction, one-shot ELK layout and in-place data merge                 *)
(* (lib/dotLayout.ts), the PipelineView load / push-update lifecycle       *)
(* (views/PipelineView.tsx), the useWebSocket push channel with its        *)
(* reconnect backoff (hooks/useWebSocket.ts) and the usePolling timer      *)
(* (hooks/usePolling.ts).                                                  *)
(*                                                                         *)
(* The specifications sharing the module:                                  *)
(*   SpecNodeState  getNodeState applied to bounded snapshots              *)
(*   SpecEdge       the edge-traversal derivation of layoutPipeline        *)
(*   Spec           the PipelineView state machine; SpecLive adds the      *)
(*                  fairness of the effect and of the promises of load()   *)
(*   SpecWs         the useWebSocket hook; SpecWsLive adds timer fairness, *)
(*                  SpecWsRerun a change of contextId                      *)
(*   SpecPoll       the usePolling hook; SpecPollRerun adds effect re-runs *)
(*   SpecTopo       step 1 of layoutPipeline on bounded descriptions       *)
(*   SpecDetail     node selection and the detail read of PipelineView     *)
(*   SpecEdgePath   the path and label anchor PipelineEdge computes        *)
(* Each one parks the variables of the others.                             *)
(***************************************************************************)
EXTENDS Integers, Sequences, FiniteSets, TLC

VARIABLES
    \* ---- SpecNodeState
    nsState,        \* the PipelineRunState handed to getNodeState
    nsResult,       \* the NodeState it returned, "none" before the call
    nsDerivedFrom,  \* history: the snapshot nsResult was derived from
    \* ---- SpecEdge
    etPath,         \* pipelineState.execution_path
    etEdge,         \* the dotEdges entry under derivation
    etDerived,      \* TRUE once the edge has been derived
    etTraversed,    \* its data.traversed (FALSE before the derivation)
    \* ---- Spec (PipelineView)
    state,          \* useState: the held PipelineRunState, Null before the fetch
    nodes,          \* useState: the React Flow nodes
    edges,          \* useState: the React Flow edges
    error,          \* useState: the load error, "null" when none
    loading,        \* useState: load() has not finished
    layoutDone,     \* useRef: the initial layout has been applied
    wsState,        \* useWebSocket: the latest pushed snapshot, Null before any
    wsConnected,    \* useWebSocket: the connected flag
    chan,           \* the push channel: "connecting", "open" or "waiting"
    wsEffectPending,\* the [wsState] effect has yet to run for the last render
    loadPc,         \* where load() stands: "fetching", "layout" or "done"
    inFlight,       \* the layoutPipeline calls awaiting elk.layout
    layoutCalls,    \* history: how often layoutPipeline has been invoked
    initialNodes,   \* history: the nodes the initial layout produced
    pushApplied,    \* history: the last snapshot merged by updateNodeData, or Null
    \* ---- SpecWs (useWebSocket)
    sockets,        \* every WebSocket the hook has created, in creation order
    wsRef,          \* useRef: index of the current socket, 0 for null
    hookState,      \* useState: the held snapshot, Null before any message
    connected,      \* useState: the connected flag
    retryMs,        \* useRef: the backoff delay in ms
    retryTimer,     \* useRef: index of the last reconnect timer, 0 for null
    timers,         \* every reconnect timer the hook has set
    unmounted,      \* useRef: the effect cleanup has run
    failRun,        \* history: closes since the last open
    droppedOn,      \* history: sockets on which a malformed message was dropped
    lastEvent,      \* history: the handler that ran last
    teardownFrom,   \* history: the channel state the cleanup ran in
    \* ---- SpecPoll (usePolling)
    pollData,       \* useState data: the held result, Null before any
    pollError,      \* useState error: the message, "null" when none
    pollLoading,    \* useState loading
    timerRef,       \* useRef: index of the last interval timer, 0 for null
    intervals,      \* every interval timer the hook has set: "live" / "cleared"
    requests,       \* every fetcher() call of doFetch, in issue order
    pollPc,         \* "rendered" (effect pending), "active" or "unmounted"
    ticks,          \* history: interval ticks so far
    pollEvent,      \* history: the step that ran last
    \* ---- SpecTopo (topology extraction of layoutPipeline)
    tpState,        \* the pipelineState handed to layoutPipeline
    tpTopology,     \* dotNodes / dotEdges after step 1, Null before
    tpDone,         \* TRUE once step 1 has run
    \* ---- SpecDetail (PipelineView node selection and detail read)
    selectedNodeId, \* useState: the selected node, "null" when none
    nodeDetail,     \* useState: the NodeDetail held for the panel, or Null
    detailLoading,  \* useState
    detailReads,    \* every getNode call of the detail effect, in issue order
    \* ---- SpecEdgePath (path and label anchor of PipelineEdge)
    epSections,     \* the ElkSection[] of the edge (data.elkSections)
    epPath,         \* the path elkSectionsToPath returned, Null before
    epLabel         \* the anchor elkSectionsLabelPosition returned, Null before

nsVars == <<nsState, nsResult, nsDerivedFrom>>
etVars == <<etPath, etEdge, etDerived, etTraversed>>
viewVars == <<state, nodes, edges, error, loading, layoutDone, wsState,
              wsConnected, chan, wsEffectPending, loadPc, inFlight,
              layoutCalls, initialNodes, pushApplied>>
hookVars == <<sockets, wsRef, hookState, connected, retryMs, retryTimer,
              timers, unmounted, failRun, droppedOn, lastEvent, teardownFrom>>
pollVars == <<pollData, pollError, pollLoading, timerRef, intervals, requests,
              pollPc, ticks, pollEvent>>
topoVars == <<tpState, tpTopology, tpDone>>
detailVars == <<selectedNodeId, nodeDetail, detailLoading, detailReads>>
pathVars == <<epSections, epPath, epLabel>>
vars == <<nsVars, etVars, viewVars, hookVars, pollVars, topoVars, detailVars,
          pathVars>>

\* ------------------------------------------------------------------ bounds
MaxRuns == 2        \* longest run history of a node
MaxLoop == 2        \* largest loop_iterations entry
MaxPath == 4        \* longest execution_path

\* ------------------------------------------------------------- data model
NodeIds == {"A", "B", "C"}

RunStatuses == {"running", "success", "fail", "timeout", "partial_success"}

PipelineStatuses == {"pending", "running", "complete", "failed"}

NodeStates == {"pending", "running", "success", "failed", "retrying", "skipped"}

\* One NodeRun; the fields the frontend reads.
NodeRun(status, attempt, duration_ms, tokens_in, tokens_out) ==
    [status |-> status, attempt |-> attempt, duration_ms |-> duration_ms,
     tokens_in |-> tokens_in, tokens_out |-> tokens_out]

\* null / undefined
Null == [isNull |-> TRUE]

\* obj[key] of a JS record: the entry, or undef when the key is absent.
Lookup(obj, key, undef) == IF key \in DOMAIN obj THEN obj[key] ELSE undef

\* All sequences over S of length 0..n.
SeqsUpTo(S, n) == UNION { [1..k -> S] : k \in 0..n }

\* --------------------------------------------------------- getNodeState
getNodeStateReadsCurrentNode(nodeId, runState) ==
    IF runState.current_node = nodeId THEN "running"
    ELSE LET runs == Lookup(runState.node_runs, nodeId, <<>>)
         IN  IF Len(runs) = 0 THEN "pending"
             ELSE IF runs[Len(runs)].status = "success" THEN "success"
             ELSE IF runs[Len(runs)].status \in {"fail", "timeout"} THEN "failed"
             ELSE IF runs[Len(runs)].status = "running" THEN "running"
             ELSE "pending"

getNodeStatePartialFails(nodeId, runState) ==
    LET runs == Lookup(runState.node_runs, nodeId, <<>>)
    IN  IF Len(runs) = 0 THEN "pending"
        ELSE LET lastRun == runs[Len(runs)]
             IN  IF lastRun.status = "running" THEN "running"
                 ELSE IF lastRun.status = "success" THEN "success"
                 ELSE "failed"

getNodeState(nodeId, runState) ==
    LET runs == Lookup(runState.node_runs, nodeId, <<>>)
    IN  IF Len(runs) = 0 THEN "pending"
        ELSE LET lastRun == runs[Len(runs)]
             IN  IF lastRun.status = "running" THEN "running"
                 ELSE IF lastRun.status = "success" THEN "success"
                 ELSE IF lastRun.status = "fail" \/ lastRun.status = "timeout"
                      THEN "failed"
                 ELSE "pending"

\* ------------------------------------------------------ edge traversal
\* Array.prototype.indexOf: 0-based index of the first occurrence, -1 if none.
indexOf(arr, x) ==
    IF \E i \in 1..Len(arr) : arr[i] = x
    THEN (CHOOSE i \in 1..Len(arr) :
             arr[i] = x /\ \A j \in 1..(i - 1) : arr[j] # x) - 1
    ELSE -1

isTraversedLastTarget(e, execution_path) ==
    \E i \in 1..Len(execution_path) : \E j \in 1..Len(execution_path) :
        i < j /\ execution_path[i] = e.source /\ execution_path[j] = e.target

isTraversed(e, execution_path) ==
    LET sourceIdx == indexOf(execution_path, e.source)
        targetIdx == indexOf(execution_path, e.target)
    IN  sourceIdx >= 0 /\ targetIdx >= 0 /\ targetIdx > sourceIdx

\* ------------------------------------------------- topology and layout
NODE_WIDTH == 180
NODE_HEIGHT == 64

\* One NodeInfo; PipelineRunState.nodes is modelled as the sequence of its
\* entries in key (insertion) order, one entry per id.
NodeInfo(id, label, type) == [id |-> id, label |-> label, type |-> type]

\* Object.keys(pipelineState.nodes)
ObjectKeys(nodeMap) == [i \in 1..Len(nodeMap) |-> nodeMap[i].id]

HasKey(nodeMap, id) == \E i \in 1..Len(nodeMap) : nodeMap[i].id = id

\* pipelineState.nodes[nodeId] ?? undef
NodeInfoOf(nodeMap, id, undef) ==
    IF HasKey(nodeMap, id)
    THEN nodeMap[CHOOSE i \in 1..Len(nodeMap) : nodeMap[i].id = id]
    ELSE undef

ChainEdgesFromFirst(edge) ==
    [i \in 1..(Len(edge.targets) - 1) |->
        [source |-> edge.targets[1], target |-> edge.targets[i + 1],
         label |-> Lookup(edge.attributes, "label", "")]]

\* The consecutive pairs of one edge statement's targets, each with the
\* statement's label ("" when it has none).
ChainEdges(edge) ==
    [i \in 1..(Len(edge.targets) - 1) |->
        [source |-> edge.targets[i], target |-> edge.targets[i + 1],
         label |-> Lookup(edge.attributes, "label", "")]]

RECURSIVE FlattenChains(_)
FlattenChains(edgeStmts) ==
    IF edgeStmts = <<>> THEN <<>>
    ELSE ChainEdges(Head(edgeStmts)) \o FlattenChains(Tail(edgeStmts))

ExtractTopologyKeepsCollected(pipelineState) ==
    IF pipelineState.dot_source.parses
    THEN [dotNodes |-> pipelineState.dot_source.nodes,
          dotEdges |-> FlattenChains(pipelineState.dot_source.edges)]
    ELSE [dotNodes |-> pipelineState.dot_source.nodes
                          \o ObjectKeys(pipelineState.nodes),
          dotEdges |-> FlattenChains(pipelineState.dot_source.edges) \o
                       [i \in 1..Len(pipelineState.edges) |->
                           [source |-> pipelineState.edges[i].from_node,
                            target |-> pipelineState.edges[i].to_node,
                            label |-> pipelineState.edges[i].label]]]

\* Step 1 of layoutPipeline: dotNodes and dotEdges. dot_source stands for what
\* fromDot makes of the text: it throws (parses = FALSE) or yields a graph
\* with its node statements and edge statements.
ExtractTopology(pipelineState) ==
    IF pipelineState.dot_source.parses
    THEN [dotNodes |-> pipelineState.dot_source.nodes,
          dotEdges |-> FlattenChains(pipelineState.dot_source.edges)]
    ELSE [dotNodes |-> ObjectKeys(pipelineState.nodes),
          dotEdges |-> [i \in 1..Len(pipelineState.edges) |->
                           [source |-> pipelineState.edges[i].from_node,
                            target |-> pipelineState.edges[i].to_node,
                            label |-> pipelineState.edges[i].label]]]

\* elk.layout accepts a graph all of whose edges join two of its children.
ElkAccepts(topology) ==
    \A i \in 1..Len(topology.dotEdges) :
        /\ \E k \in 1..Len(topology.dotNodes) :
              topology.dotNodes[k] = topology.dotEdges[i].source
        /\ \E k \in 1..Len(topology.dotNodes) :
              topology.dotNodes[k] = topology.dotEdges[i].target

\* The position elk.layout gives the i-th child: one column per variant v of
\* the layout, one row per child.
ElkPosition(i, v) ==
    [x |-> 30 + (v - 1) * (NODE_WIDTH + 50), y |-> 30 + (i - 1) * (NODE_HEIGHT + 80)]

\* The last run of a history, or Null.
LastRun(runs) == IF Len(runs) > 0 THEN runs[Len(runs)] ELSE Null

\* lastRun?.field ?? 0
RunField(lastRun, field) == IF lastRun = Null THEN 0 ELSE lastRun[field]

\* Step 3 of layoutPipeline, nodes: one React Flow node per ELK child.
LayoutNodes(pipelineState, topology, v) ==
    [i \in 1..Len(topology.dotNodes) |->
        LET nodeId == topology.dotNodes[i]
            nodeInfo == NodeInfoOf(pipelineState.nodes, nodeId,
                                   NodeInfo(nodeId, nodeId, ""))
            lastRun == LastRun(Lookup(pipelineState.node_runs, nodeId, <<>>))
        IN  [id |-> nodeId,
             type |-> "pipelineNode",
             position |-> ElkPosition(i, v),
             data |-> [label |-> IF nodeInfo.label # "" THEN nodeInfo.label
                                 ELSE nodeId,
                       nodeId |-> nodeId,
                       nodeInfo |-> nodeInfo,
                       state |-> getNodeState(nodeId, pipelineState),
                       durationMs |-> RunField(lastRun, "duration_ms"),
                       tokensIn |-> RunField(lastRun, "tokens_in"),
                       tokensOut |-> RunField(lastRun, "tokens_out"),
                       loopCount |-> Lookup(pipelineState.loop_iterations,
                                            nodeId, 0)]]]

\* nodes[id]?.label || id
LabelOrId(nodeMap, id) ==
    LET info == NodeInfoOf(nodeMap, id, NodeInfo(id, "", ""))
    IN  IF info.label # "" THEN info.label ELSE id

\* Step 3 of layoutPipeline, edges: one React Flow edge per dotEdges entry
\* (data.elkSections, the routed geometry ELK returns, is left out).
LayoutEdges(pipelineState, topology) ==
    [i \in 1..Len(topology.dotEdges) |->
        LET e == topology.dotEdges[i]
            traversed == isTraversed(e, pipelineState.execution_path)
        IN  [id |-> <<i - 1, e.source, e.target>>,
             source |-> e.source,
             target |-> e.target,
             type |-> "pipelineEdge",
             label |-> IF e.label # "" THEN e.label ELSE "undefined",
             data |-> [traversed |-> traversed,
                       sourceLabel |-> LabelOrId(pipelineState.nodes, e.source),
                       targetLabel |-> LabelOrId(pipelineState.nodes, e.target)],
             markerEnd |-> IF traversed THEN "var(--text-secondary)"
                           ELSE "var(--text-tertiary)"]]

\* ------------------------------------------------------- updateNodeData
updateNodeDataRepositions(existingNodes, newState) ==
    [i \in 1..Len(existingNodes) |->
        LET node == existingNodes[i]
            nodeId == node.id
            lastRun == LastRun(Lookup(newState.node_runs, nodeId, <<>>))
        IN  [node EXCEPT
                !.position = ElkPosition(i, 1 + Len(newState.execution_path)),
                !.data = [node.data EXCEPT
                    !.nodeInfo = NodeInfoOf(newState.nodes, nodeId,
                                            node.data.nodeInfo),
                    !.state = getNodeState(nodeId, newState),
                    !.durationMs = RunField(lastRun, "duration_ms"),
                    !.tokensIn = RunField(lastRun, "tokens_in"),
                    !.tokensOut = RunField(lastRun, "tokens_out"),
                    !.loopCount = Lookup(newState.loop_iterations, nodeId, 0)]]]

updateNodeDataFollowsSnapshot(existingNodes, newState) ==
    LET known == SelectSeq(existingNodes,
                           LAMBDA node : HasKey(newState.nodes, node.id))
    IN  [i \in 1..Len(known) |->
            LET node == known[i]
                nodeId == node.id
                lastRun == LastRun(Lookup(newState.node_runs, nodeId, <<>>))
            IN  [node EXCEPT
                    !.data = [node.data EXCEPT
                        !.nodeInfo = NodeInfoOf(newState.nodes, nodeId,
                                                node.data.nodeInfo),
                        !.state = getNodeState(nodeId, newState),
                        !.durationMs = RunField(lastRun, "duration_ms"),
                        !.tokensIn = RunField(lastRun, "tokens_in"),
                        !.tokensOut = RunField(lastRun, "tokens_out"),
                        !.loopCount = Lookup(newState.loop_iterations,
                                             nodeId, 0)]]]

updateNodeDataKeepsAbsent(existingNodes, newState) ==
    [i \in 1..Len(existingNodes) |->
        LET node == existingNodes[i]
            nodeId == node.id
            lastRun == LastRun(Lookup(newState.node_runs, nodeId, <<>>))
        IN  IF nodeId \notin DOMAIN newState.node_runs THEN node
            ELSE [node EXCEPT
                    !.data = [node.data EXCEPT
                        !.nodeInfo = NodeInfoOf(newState.nodes, nodeId,
                                                node.data.nodeInfo),
                        !.state = getNodeState(nodeId, newState),
                        !.durationMs = RunField(lastRun, "duration_ms"),
                        !.tokensIn = RunField(lastRun, "tokens_in"),
                        !.tokensOut = RunField(lastRun, "tokens_out"),
                        !.loopCount = Lookup(newState.loop_iterations,
                                             nodeId, 0)]]]

\* The duration added to the one already shown.
updateNodeDataAccumulates(existingNodes, newState) ==
    [i \in 1..Len(existingNodes) |->
        LET node == existingNodes[i]
            nodeId == node.id
            lastRun == LastRun(Lookup(newState.node_runs, nodeId, <<>>))
        IN  [node EXCEPT
                !.data = [node.data EXCEPT
                    !.nodeInfo = NodeInfoOf(newState.nodes, nodeId,
                                            node.data.nodeInfo),
                    !.state = getNodeState(nodeId, newState),
                    !.durationMs = node.data.durationMs
                                      + RunField(lastRun, "duration_ms"),
                    !.tokensIn = RunField(lastRun, "tokens_in"),
                    !.tokensOut = RunField(lastRun, "tokens_out"),
                    !.loopCount = Lookup(newState.loop_iterations, nodeId, 0)]]]

\* existingNodes.map: {...node, data: {...node.data, nodeInfo, state,
\* durationMs, tokensIn, tokensOut, loopCount}}
updateNodeData(existingNodes, newState) ==
    [i \in 1..Len(existingNodes) |->
        LET node == existingNodes[i]
            nodeId == node.id
            state_ == getNodeState(nodeId, newState)
            runs == Lookup(newState.node_runs, nodeId, <<>>)
            lastRun == LastRun(runs)
            nodeInfo == NodeInfoOf(newState.nodes, nodeId, node.data.nodeInfo)
        IN  [node EXCEPT
                !.data = [node.data EXCEPT
                    !.nodeInfo = nodeInfo,
                    !.state = state_,
                    !.durationMs = RunField(lastRun, "duration_ms"),
                    !.tokensIn = RunField(lastRun, "tokens_in"),
                    !.tokensOut = RunField(lastRun, "tokens_out"),
                    !.loopCount = Lookup(newState.loop_iterations, nodeId, 0)]]]

\* ============================================================ SpecNodeState
\* Run histories: attempt numbers count up from 1 in insertion order, and an
\* attempt starts only after the one before it has completed.
RunHistories ==
    { [i \in 1..Len(sts) |-> NodeRun(sts[i], i, 0, 0, 0)] :
        sts \in { q \in SeqsUpTo(RunStatuses, MaxRuns) :
                    \A i \in 1..(Len(q) - 1) : q[i] # "running" } }

\* node_runs with or without an entry for node A.
NsNodeRuns == { <<>> } \cup { [n \in {"A"} |-> h] : h \in RunHistories }

NsLoopIterations == { <<>> } \cup { [n \in {"A"} |-> c] : c \in 0..MaxLoop }

NsSnapshots ==
    [ node_runs : NsNodeRuns, loop_iterations : NsLoopIterations,
      status : PipelineStatuses, current_node : {"null", "A"},
      execution_path : {<<>>, <<"A">>} ]

NsParked == nsState = Null /\ nsResult = "none" /\ nsDerivedFrom = Null
EtParked ==
    etPath = <<>> /\ etEdge = Null /\ etDerived = FALSE /\ etTraversed = FALSE
ViewParked ==
    /\ state = Null /\ nodes = <<>> /\ edges = <<>> /\ error = "null"
    /\ loading = FALSE /\ layoutDone = FALSE /\ wsState = Null
    /\ wsConnected = FALSE /\ chan = "parked" /\ wsEffectPending = FALSE
    /\ loadPc = "parked" /\ inFlight = <<>> /\ layoutCalls = 0
    /\ initialNodes = <<>> /\ pushApplied = Null

HookParked ==
    /\ sockets = <<>> /\ wsRef = 0 /\ hookState = Null /\ connected = FALSE
    /\ retryMs = 0 /\ retryTimer = 0 /\ timers = <<>> /\ unmounted = FALSE
    /\ failRun = 0 /\ droppedOn = {} /\ lastEvent = "parked"
    /\ teardownFrom = "parked"

PollParked ==
    /\ pollData = Null /\ pollError = "null" /\ pollLoading = FALSE
    /\ timerRef = 0 /\ intervals = <<>> /\ requests = <<>>
    /\ pollPc = "parked" /\ ticks = 0 /\ pollEvent = "parked"

TopoParked == tpState = Null /\ tpTopology = Null /\ tpDone = FALSE

DetailParked ==
    /\ selectedNodeId = "null" /\ nodeDetail = Null
    /\ detailLoading = FALSE /\ detailReads = <<>>

PathParked == epSections = <<>> /\ epPath = Null /\ epLabel = Null

NsInit ==
    /\ nsState \in NsSnapshots
    /\ nsResult = "none"
    /\ nsDerivedFrom = Null
    /\ EtParked
    /\ ViewParked
    /\ HookParked
    /\ PollParked
    /\ TopoParked
    /\ DetailParked
    /\ PathParked

\* The renderer derives the state of node A from the snapshot.
NsDerive ==
    /\ nsResult = "none"
    /\ nsResult' = getNodeState("A", nsState)
    /\ nsDerivedFrom' = nsState
    /\ UNCHANGED <<nsState, etVars, viewVars, hookVars, pollVars, topoVars,
                   detailVars, pathVars>>

\* A later snapshot that agrees on (runs, loop count, pipeline status) of the
\* node and differs in its other fields.
NsOtherFields ==
    /\ nsResult # "none"
    /\ \E cn \in {"null", "A"} : \E ep \in {<<>>, <<"A">>} :
          /\ <<cn, ep>> # <<nsState.current_node, nsState.execution_path>>
          /\ nsState' = [nsState EXCEPT !.current_node = cn, !.execution_path = ep]
    /\ UNCHANGED <<nsResult, nsDerivedFrom, etVars, viewVars, hookVars, pollVars,
                   topoVars, detailVars, pathVars>>

NsNext == NsDerive \/ NsOtherFields

SpecNodeState == NsInit /\ [][NsNext]_vars

\* ---- claims about getNodeState (checked under SpecNodeState)
NsRuns == Lookup(nsState.node_runs, "A", <<>>)
NsLastStatus == NsRuns[Len(NsRuns)].status
NsLoopCount == Lookup(nsState.loop_iterations, "A", 0)

\* C5: with a last run of status running, getNodeState returns 'running'
\* when that run is the node's only run and 'retrying' when an earlier run
\* exists in the node's history.
C5_RunningOnlyRunElseRetrying ==
    (nsResult # "none" /\ Len(NsRuns) > 0 /\ NsLastStatus = "running")
        => nsResult = (IF Len(NsRuns) = 1 THEN "running" ELSE "retrying")

\* C6: with a last run of status fail or timeout, getNodeState returns
\* 'retrying' exactly when the node's loop-iteration count is > 0 and the
\* pipeline status is 'running', and 'failed' in every other case.
C6_FailedRetryingIffLoopingAndRunning ==
    (nsResult # "none" /\ Len(NsRuns) > 0 /\ NsLastStatus \in {"fail", "timeout"})
        => nsResult = (IF NsLoopCount > 0 /\ nsState.status = "running"
                       THEN "retrying" ELSE "failed")

\* Two snapshots agree on the inputs of the derivation for node A.
NsAgree(s1, s2) ==
    /\ Lookup(s1.node_runs, "A", <<>>) = Lookup(s2.node_runs, "A", <<>>)
    /\ Lookup(s1.loop_iterations, "A", 0) = Lookup(s2.loop_iterations, "A", 0)
    /\ s1.status = s2.status

\* C7: getNodeState is a function of (runs, loop count, pipeline status)
\* alone: a snapshot that agrees with the derived-from snapshot on these
\* three gives the same state whatever its other fields; and a node with an
\* empty run list or no node_runs entry is 'pending' for every loop count
\* and pipeline status.
C7_PureAndPendingWithoutRuns ==
    nsResult # "none" =>
        /\ NsAgree(nsDerivedFrom, nsState) => getNodeState("A", nsState) = nsResult
        /\ Len(NsRuns) = 0 => nsResult = "pending"

\* A derivation whose snapshot has since changed in its other fields, and a
\* node without runs in a running pipeline with a positive loop count.
C7_Witness ==
    /\ nsResult = "pending"
    /\ nsDerivedFrom # Null /\ nsDerivedFrom # nsState
    /\ "A" \notin DOMAIN nsState.node_runs
    /\ NsLoopCount > 0 /\ nsState.status = "running"

\* ================================================================= SpecEdge
EtEdges == [source : NodeIds, target : NodeIds]

EtInit ==
    /\ etPath \in SeqsUpTo(NodeIds, MaxPath)
    /\ etEdge \in EtEdges
    /\ etDerived = FALSE
    /\ etTraversed = FALSE
    /\ NsParked
    /\ ViewParked
    /\ HookParked
    /\ PollParked
    /\ TopoParked
    /\ DetailParked
    /\ PathParked

\* The dotEdges.map callback of layoutPipeline for one edge.
EtDerive ==
    /\ ~etDerived
    /\ etDerived' = TRUE
    /\ etTraversed' = isTraversed(etEdge, etPath)
    /\ UNCHANGED <<etPath, etEdge, nsVars, viewVars, hookVars, pollVars, topoVars,
                   detailVars, pathVars>>

\* The run goes on: one more node is appended to the execution path and the
\* edge is derived again from the longer path.
EtExtend ==
    /\ etDerived
    /\ Len(etPath) < MaxPath
    /\ \E n \in NodeIds :
          /\ etPath' = Append(etPath, n)
          /\ etTraversed' = isTraversed(etEdge, Append(etPath, n))
    /\ UNCHANGED <<etEdge, etDerived, nsVars, viewVars, hookVars, pollVars,
                   topoVars, detailVars, pathVars>>

EtNext == EtDerive \/ EtExtend

SpecEdge == EtInit /\ [][EtNext]_vars

\* ---- claims about the edge-traversal derivation (checked under SpecEdge)
\* 1-based positions of a node in the execution path.
EtPositions(n) == { i \in 1..Len(etPath) : etPath[i] = n }

EtFirst(n) == CHOOSE i \in EtPositions(n) : \A j \in EtPositions(n) : i <= j

\* The run took the edge itself: its endpoints are consecutive in the path.
EtTaken ==
    \E i \in 1..(Len(etPath) - 1) :
        etPath[i] = etEdge.source /\ etPath[i + 1] = etEdge.target

\* C8: an edge's traversed flag is true iff both endpoints occur in the
\* execution path and the first-occurrence index of 'to' is strictly greater
\* than that of 'from'; for path [A,B,C], (A,B) and (A,C) are traversed,
\* (B,A) and (C,A) are not; a self-loop is never traversed.
C8_TraversedIffFirstIndexLater ==
    etDerived =>
        /\ etTraversed <=>
              /\ EtPositions(etEdge.source) # {}
              /\ EtPositions(etEdge.target) # {}
              /\ EtFirst(etEdge.target) > EtFirst(etEdge.source)
        /\ etPath = <<"A", "B", "C">> =>
              /\ (etEdge \in {[source |-> "A", target |-> "B"],
                              [source |-> "A", target |-> "C"]} => etTraversed)
              /\ (etEdge \in {[source |-> "B", target |-> "A"],
                              [source |-> "C", target |-> "A"]} => ~etTraversed)
        /\ etEdge.source = etEdge.target => ~etTraversed

C8_Witness ==
    /\ etDerived /\ etTraversed
    /\ etPath = <<"A", "B", "C">>
    /\ etEdge = [source |-> "A", target |-> "C"]

\* C9: an edge whose source node was executed but whose target node was
\* reached through a different edge (the edge itself was never taken) is not
\* marked traversed.
C9_SkippedBranchNotTraversed ==
    (/\ etDerived
     /\ EtPositions(etEdge.source) # {}
     /\ EtPositions(etEdge.target) # {}
     /\ ~EtTaken) => ~etTraversed

\* C10: an edge is marked traversed whenever its endpoints appear in order
\* in the execution path, i.e. whenever there are positions i < j with
\* path[i] = from and path[j] = to, also when a node occurs more than once
\* (stated for edges between two different nodes).
C10_TraversedWhenInOrderAnywhere ==
    (/\ etDerived
     /\ etEdge.source # etEdge.target
     /\ \E i \in EtPositions(etEdge.source) :
           \E j \in EtPositions(etEdge.target) : i < j) => etTraversed

\* ===================================================================== Spec
\* The PipelineView of one contextId: load() (REST fetch, then the layout),
\* the push channel of useWebSocket as the view sees it, and the [wsState]
\* effect that merges pushed snapshots.

\* What fromDot makes of a description: a graph with node statements A, B and
\* the edge statements "A -> B -> A" (no label) and "A -> B [label=next]",
\* or a throw.
DotGraph ==
    [parses |-> TRUE,
     nodes |-> <<"A", "B">>,
     edges |-> << [targets |-> <<"A", "B", "A">>, attributes |-> <<>>],
                  [targets |-> <<"A", "B">>,
                   attributes |-> [k \in {"label"} |-> "next"]] >>]

DotUnparsable == [parses |-> FALSE, nodes |-> <<>>, edges |-> <<>>]

\* nodes maps: both laid-out nodes (B without a label); A alone, renamed;
\* and a map with a node C the layout does not know.
ViewNodeMaps ==
    { << NodeInfo("A", "Alpha", "llm"), NodeInfo("B", "", "llm") >>,
      << NodeInfo("A", "Renamed", "tool") >>,
      << NodeInfo("B", "", ""), NodeInfo("A", "Alpha", "llm"),
         NodeInfo("C", "Gamma", "llm") >> }

ViewEdgeInfos == << [from_node |-> "A", to_node |-> "B", label |-> "next"] >>

\* How far the run has got: pipeline status, execution path, run histories
\* and loop counts of one instant.
Progress(status, execution_path, node_runs, loop_iterations) ==
    [status |-> status, execution_path |-> execution_path,
     node_runs |-> node_runs, loop_iterations |-> loop_iterations]

\* Nothing has run yet.
ProgressPending == Progress("running", <<>>, <<>>, <<>>)

\* A is running.
ProgressFirstNode ==
    Progress("running", <<"A">>,
             [n \in {"A"} |-> << NodeRun("running", 1, 0, 0, 0) >>], <<>>)

\* A failed and then succeeded, B is running; A and the node C, which the
\* layout does not know, have looped.
ProgressLooped ==
    Progress("running", <<"A", "B">>,
             [n \in {"A", "B"} |->
                 IF n = "A" THEN << NodeRun("fail", 1, 3, 1, 2),
                                    NodeRun("success", 2, 7, 4, 5) >>
                 ELSE << NodeRun("running", 1, 0, 0, 0) >>],
             [n \in {"A", "C"} |-> IF n = "A" THEN MaxLoop ELSE 1])

\* The run is over: A succeeded, B has no entry, C timed out.
ProgressComplete ==
    Progress("complete", <<"A", "B">>,
             [n \in {"A", "C"} |->
                 IF n = "A" THEN << NodeRun("success", 1, 3, 1, 2) >>
                 ELSE << NodeRun("timeout", 1, 9, 0, 0) >>],
             <<>>)

Snapshots(dots, nodeMaps, progresses) ==
    { [dot_source |-> d, status |-> pr.status, nodes |-> nm,
       edges |-> ViewEdgeInfos, execution_path |-> pr.execution_path,
       node_runs |-> pr.node_runs, loop_iterations |-> pr.loop_iterations] :
        d \in dots, nm \in nodeMaps, pr \in progresses }

\* What GET /api/pipelines/{contextId} may return.
RestSnapshots ==
    Snapshots({DotGraph, DotUnparsable}, ViewNodeMaps,
              {ProgressPending, ProgressFirstNode})

\* What the push channel may deliver.
PushSnapshots ==
    Snapshots({DotGraph}, ViewNodeMaps,
              {ProgressPending, ProgressFirstNode, ProgressLooped,
               ProgressComplete})

\* Layout variants elk.layout may return.
ElkVariants == 2

Init ==
    /\ state = Null
    /\ nodes = <<>>
    /\ edges = <<>>
    /\ error = "null"
    /\ loading = TRUE
    /\ layoutDone = FALSE
    /\ wsState = Null
    /\ wsConnected = FALSE
    /\ chan = "connecting"
    /\ wsEffectPending = TRUE
    /\ loadPc = "fetching"
    /\ inFlight = <<>>
    /\ layoutCalls = 0
    /\ initialNodes = <<>>
    /\ pushApplied = Null
    /\ NsParked
    /\ EtParked
    /\ HookParked
    /\ PollParked
    /\ TopoParked
    /\ DetailParked
    /\ PathParked

\* load(): getPipeline resolves; setState, then layoutPipeline is called and
\* runs up to its await of elk.layout.
FetchResolve ==
    /\ loadPc = "fetching"
    /\ \E pipelineState \in RestSnapshots :
          /\ state' = pipelineState
          /\ inFlight' = Append(inFlight,
                [pipelineState |-> pipelineState,
                 topology |-> ExtractTopology(pipelineState)])
    /\ layoutCalls' = layoutCalls + 1
    /\ loadPc' = "layout"
    /\ UNCHANGED <<nodes, edges, error, loading, layoutDone, wsState,
                   wsConnected, chan, wsEffectPending, initialNodes,
                   pushApplied, nsVars, etVars, hookVars, pollVars, topoVars,
                   detailVars, pathVars>>

\* load(): getPipeline rejects; catch and finally.
FetchReject ==
    /\ loadPc = "fetching"
    /\ error' = "API error"
    /\ loading' = FALSE
    /\ loadPc' = "done"
    /\ UNCHANGED <<state, nodes, edges, layoutDone, wsState, wsConnected, chan,
                   wsEffectPending, inFlight, layoutCalls, initialNodes,
                   pushApplied, nsVars, etVars, hookVars, pollVars, topoVars,
                   detailVars, pathVars>>

\* elk.layout resolves: layoutPipeline returns and load() stores the result.
LayoutResolve ==
    /\ inFlight # <<>>
    /\ ElkAccepts(Head(inFlight).topology)
    /\ \E v \in 1..ElkVariants :
          LET call == Head(inFlight)
              laidOut == LayoutNodes(call.pipelineState, call.topology, v)
          IN  /\ nodes' = laidOut
              /\ edges' = LayoutEdges(call.pipelineState, call.topology)
              /\ initialNodes' = laidOut
    /\ inFlight' = Tail(inFlight)
    /\ layoutDone' = TRUE
    /\ error' = "null"
    /\ loading' = FALSE
    /\ loadPc' = "done"
    /\ UNCHANGED <<state, wsState, wsConnected, chan, wsEffectPending,
                   layoutCalls, pushApplied, nsVars, etVars, hookVars, pollVars,
                   topoVars, detailVars, pathVars>>

LayoutRejectKeepsGoing ==
    /\ inFlight # <<>>
    /\ inFlight' = Tail(inFlight)
    /\ layoutDone' = TRUE
    /\ error' = "layout failed"
    /\ loading' = FALSE
    /\ loadPc' = "done"
    /\ UNCHANGED <<state, nodes, edges, wsState, wsConnected, chan,
                   wsEffectPending, layoutCalls, initialNodes, pushApplied,
                   nsVars, etVars, hookVars, pollVars, topoVars, detailVars,
                   pathVars>>

\* elk.layout rejects: catch and finally of load().
LayoutReject ==
    /\ inFlight # <<>>
    /\ inFlight' = Tail(inFlight)
    /\ error' = "layout failed"
    /\ loading' = FALSE
    /\ loadPc' = "done"
    /\ UNCHANGED <<state, nodes, edges, layoutDone, wsState, wsConnected, chan,
                   wsEffectPending, layoutCalls, initialNodes, pushApplied,
                   nsVars, etVars, hookVars, pollVars, topoVars, detailVars,
                   pathVars>>

\* ws.onopen
ChannelOpen ==
    /\ chan = "connecting"
    /\ chan' = "open"
    /\ wsConnected' = TRUE
    /\ UNCHANGED <<state, nodes, edges, error, loading, layoutDone, wsState,
                   wsEffectPending, loadPc, inFlight, layoutCalls,
                   initialNodes, pushApplied, nsVars, etVars, hookVars, pollVars,
                   topoVars, detailVars, pathVars>>

\* ws.onmessage with a snapshot: setState(data); the view renders again and
\* its [wsState] effect is due.
ChannelMessage ==
    /\ chan = "open"
    /\ \E data \in PushSnapshots : wsState' = data
    /\ wsEffectPending' = TRUE
    /\ UNCHANGED <<state, nodes, edges, error, loading, layoutDone,
                   wsConnected, chan, loadPc, inFlight, layoutCalls,
                   initialNodes, pushApplied, nsVars, etVars, hookVars, pollVars,
                   topoVars, detailVars, pathVars>>

\* ws.onclose: setConnected(false) and the reconnect timer is set.
ChannelClose ==
    /\ chan \in {"connecting", "open"}
    /\ chan' = "waiting"
    /\ wsConnected' = FALSE
    /\ UNCHANGED <<state, nodes, edges, error, loading, layoutDone, wsState,
                   wsEffectPending, loadPc, inFlight, layoutCalls,
                   initialNodes, pushApplied, nsVars, etVars, hookVars, pollVars,
                   topoVars, detailVars, pathVars>>

\* The reconnect timer fires: connect() opens a new socket.
ChannelReconnect ==
    /\ chan = "waiting"
    /\ chan' = "connecting"
    /\ UNCHANGED <<state, nodes, edges, error, loading, layoutDone, wsState,
                   wsConnected, wsEffectPending, loadPc, inFlight, layoutCalls,
                   initialNodes, pushApplied, nsVars, etVars, hookVars, pollVars,
                   topoVars, detailVars, pathVars>>

WsEffectRelayout ==
    /\ wsEffectPending
    /\ wsEffectPending' = FALSE
    /\ IF wsState = Null \/ ~layoutDone
       THEN UNCHANGED <<state, nodes, pushApplied, inFlight, layoutCalls>>
       ELSE /\ state' = wsState
            /\ nodes' = updateNodeData(nodes, wsState)
            /\ pushApplied' = wsState
            /\ IF wsState.status = "running"
               THEN /\ inFlight' = Append(inFlight,
                          [pipelineState |-> wsState,
                           topology |-> ExtractTopology(wsState)])
                    /\ layoutCalls' = layoutCalls + 1
               ELSE UNCHANGED <<inFlight, layoutCalls>>
    /\ UNCHANGED <<edges, error, loading, layoutDone, wsState, wsConnected,
                   chan, loadPc, initialNodes, nsVars, etVars, hookVars, pollVars,
                   topoVars, detailVars, pathVars>>

\* The effect on [wsState]: at mount and after every render with a new
\* wsState.
WsEffect ==
    /\ wsEffectPending
    /\ wsEffectPending' = FALSE
    /\ IF wsState = Null \/ ~layoutDone
       THEN UNCHANGED <<state, nodes, pushApplied>>
       ELSE /\ state' = wsState
            /\ nodes' = updateNodeData(nodes, wsState)
            /\ pushApplied' = wsState
    /\ UNCHANGED <<edges, error, loading, layoutDone, wsState, wsConnected,
                   chan, loadPc, inFlight, layoutCalls, initialNodes,
                   nsVars, etVars, hookVars, pollVars, topoVars, detailVars,
                   pathVars>>

Next ==
    \/ FetchResolve
    \/ FetchReject
    \/ LayoutResolve
    \/ LayoutReject
    \/ ChannelOpen
    \/ ChannelMessage
    \/ ChannelClose
    \/ ChannelReconnect
    \/ WsEffect

Spec == Init /\ [][Next]_vars

\* ---- claims about the PipelineView (checked under Spec)

\* C1: layoutPipeline is invoked exactly once in the view's lifetime, once
\* the initial REST fetch has succeeded (not before, and not at all when the
\* fetch fails), and never again by push snapshots, disconnects or
\* reconnects, also while the pipeline status is running; at no time are two
\* layout invocations in flight.
C1_LayoutInvokedOnce ==
    /\ layoutCalls = (IF state = Null THEN 0 ELSE 1)
    /\ Len(inFlight) <= 1
    /\ Len(inFlight) = 1 <=> loadPc = "layout"

\* The layout is done, a snapshot of a running pipeline has been merged, and
\* the channel has dropped and is connecting again.
C1_Witness ==
    /\ layoutDone /\ layoutCalls = 1
    /\ pushApplied # Null /\ state = pushApplied /\ state.status = "running"
    /\ chan = "connecting"

\* C2: after the initial layout, through every sequence of push snapshots
\* merged by updateNodeData, every displayed node's position, id and type
\* are the values the initial layout assigned.
C2_PositionsFixed ==
    layoutDone =>
        /\ Len(nodes) = Len(initialNodes)
        /\ \A i \in 1..Len(nodes) :
              /\ nodes[i].position = initialNodes[i].position
              /\ nodes[i].id = initialNodes[i].id
              /\ nodes[i].type = initialNodes[i].type

\* A merged snapshot has changed the derived state of a node.
C2_Witness ==
    /\ layoutDone /\ pushApplied # Null
    /\ \E i \in 1..Len(nodes) :
          nodes[i].data.state # initialNodes[i].data.state

\* C3: a merge replaces only the derived state, the duration, the token
\* counts and the loop count of a node's data; label, nodeId and nodeInfo
\* stay as they were before the merge.
C3_OtherDataFieldsKept ==
    layoutDone =>
        \A i \in 1..Len(nodes) :
            /\ nodes[i].data.label = initialNodes[i].data.label
            /\ nodes[i].data.nodeId = initialNodes[i].data.nodeId
            /\ nodes[i].data.nodeInfo = initialNodes[i].data.nodeInfo

\* The ids of a node list, in order.
NodeIdsOf(list) == [i \in 1..Len(list) |-> list[i].id]

\* C4: updateNodeData returns the same node ids in the same order: a
\* snapshot that names ids unknown to the layout adds no node, one that
\* omits a laid-out node removes none, after any sequence of pushes.
C4_SameNodesSameOrder ==
    layoutDone => NodeIdsOf(nodes) = NodeIdsOf(initialNodes)

\* The merged snapshot names the unknown node C in its nodes map and run
\* map, or omits the laid-out node B from both.
C4_Witness ==
    /\ layoutDone /\ pushApplied # Null /\ Len(nodes) = 2
    /\ \/ HasKey(pushApplied.nodes, "C") /\ "C" \in DOMAIN pushApplied.node_runs
       \/ ~HasKey(pushApplied.nodes, "B") /\ "B" \notin DOMAIN pushApplied.node_runs

\* The graph is on display: load() has finished without an error.
Displayed == ~loading /\ error = "null" /\ state # Null

\* C11: whenever the graph is displayed, every displayed node's state,
\* duration, token counts and loop count are the values derived from the
\* snapshot the view holds, after any interleaving of the initial load and
\* push snapshots.
C11_NodeDataFollowsHeldSnapshot ==
    Displayed =>
        \A i \in 1..Len(nodes) :
            LET nodeId == nodes[i].id
                held == Lookup(state.node_runs, nodeId, <<>>)
            IN  /\ nodes[i].data.state = getNodeState(nodeId, state)
                /\ nodes[i].data.durationMs =
                      (IF held = <<>> THEN 0 ELSE held[Len(held)].duration_ms)
                /\ nodes[i].data.tokensIn =
                      (IF held = <<>> THEN 0 ELSE held[Len(held)].tokens_in)
                /\ nodes[i].data.tokensOut =
                      (IF held = <<>> THEN 0 ELSE held[Len(held)].tokens_out)
                /\ nodes[i].data.loopCount =
                      (IF nodeId \in DOMAIN state.loop_iterations
                       THEN state.loop_iterations[nodeId] ELSE 0)

\* A push that arrived during the layout was skipped, a later one has been
\* merged, and the merged snapshot has no runs for a node the initial layout
\* showed as running.
C11_Witness ==
    /\ Displayed /\ pushApplied # Null /\ state = pushApplied
    /\ \E i \in 1..Len(nodes) :
          /\ initialNodes[i].data.state = "running"
          /\ nodes[i].id \notin DOMAIN state.node_runs
          /\ nodes[i].data.state = "pending"

\* C12: after a push snapshot has been merged into the laid-out graph,
\* every edge's traversed flag equals the edge-traversal derivation applied
\* to that snapshot's execution path.
C12_EdgesFollowLatestSnapshot ==
    (layoutDone /\ pushApplied # Null /\ state = pushApplied) =>
        \A i \in 1..Len(edges) :
            edges[i].data.traversed =
                isTraversed(edges[i], state.execution_path)

\* ------------------------------------------------------------ useWebSocket
INITIAL_RETRY_MS == 1000
MAX_RETRY_MS == 16000

MaxRerunSockets == 3    \* sockets made in a run with a change of contextId
MaxSockets == 7     \* sockets the hook may create before the channel stays up

ContextId == "ctx-1"
\* The contextId of a later render (another pipeline's route).
NextContextId == "ctx-2"

Min(a, b) == IF a < b THEN a ELSE b

\* new WebSocket(url): the socket starts in CONNECTING.  opened records that
\* its open event has been dispatched.
Socket(url) == [url |-> url, readyState |-> "connecting", opened |-> FALSE]

\* ws.close(): CONNECTING and OPEN sockets go to CLOSING, the others stay.
close(ws) ==
    IF ws.readyState \in {"connecting", "open"}
    THEN [ws EXCEPT !.readyState = "closing"]
    ELSE ws

\* What JSON.parse yields for the frames the server may send: snapshots of
\* a pipeline, the JSON values null and 42, and text that is not JSON.
WsValues ==
    { [pipeline_id |-> c, status |-> s] :
        c \in {ContextId, NextContextId}, s \in {"running", "complete"} }
        \cup {Null, [number |-> 42]}

WsPayloads ==
    { [parses |-> TRUE, value |-> v] : v \in WsValues }
        \cup { [parses |-> FALSE, value |-> Null] }

\* The contextId of the latest render.
CurrentContextId ==
    IF \E i \in 1..Len(sockets) : sockets[i].url = NextContextId
    THEN NextContextId
    ELSE ContextId

\* The number of sockets up to which the channel may fail: fewer in a run
\* in which the contextId has changed.
SocketCap ==
    IF CurrentContextId = NextContextId THEN MaxRerunSockets ELSE MaxSockets

\* The endpoint /ws/pipelines/{contextId} sends snapshots of that pipeline.
SentOn(ws, payload) ==
    "pipeline_id" \in DOMAIN payload.value
        => payload.value.pipeline_id = ws.url

\* The channel state as the view sees it.
ChannelState ==
    IF wsRef # 0 /\ sockets[wsRef].readyState = "open" THEN "connected"
    ELSE IF \E t \in 1..Len(timers) : timers[t].status = "pending"
         THEN "awaitingReconnect"
    ELSE IF Len(sockets) = 1 THEN "awaitingFirst"
    ELSE "reconnecting"

\* connect() of the render with the given contextId: a new socket becomes
\* the current one unless the hook has been torn down.
connect(contextId) ==
    IF unmounted
    THEN UNCHANGED <<sockets, wsRef>>
    ELSE /\ sockets' = Append(sockets, Socket(contextId))
         /\ wsRef' = Len(sockets) + 1

\* The mount effect has run: unmounted.current = false; connect().
WsInit ==
    /\ sockets = <<Socket(ContextId)>>
    /\ wsRef = 1
    /\ hookState = Null
    /\ connected = FALSE
    /\ retryMs = INITIAL_RETRY_MS
    /\ retryTimer = 0
    /\ timers = <<>>
    /\ unmounted = FALSE
    /\ failRun = 0
    /\ droppedOn = {}
    /\ lastEvent = "none"
    /\ teardownFrom = "none"
    /\ NsParked
    /\ EtParked
    /\ ViewParked
    /\ PollParked
    /\ TopoParked
    /\ DetailParked
    /\ PathParked

onopenKeepsBackoff(i) ==
    /\ sockets[i].readyState \in {"connecting", "closing"}
    /\ ~sockets[i].opened
    /\ IF unmounted
       THEN /\ sockets' = [sockets EXCEPT ![i] = close([@ EXCEPT
                              !.readyState = "open", !.opened = TRUE])]
            /\ UNCHANGED <<connected, failRun>>
       ELSE /\ sockets' = [sockets EXCEPT
                  ![i].readyState = IF @ = "closing" THEN @ ELSE "open",
                  ![i].opened = TRUE]
            /\ connected' = TRUE
            /\ failRun' = 0
    /\ lastEvent' = "open"
    /\ UNCHANGED <<wsRef, hookState, retryMs, retryTimer, timers, unmounted,
                   droppedOn, teardownFrom, nsVars, etVars, viewVars,
                   pollVars, topoVars, detailVars, pathVars>>

\* ws.onopen.  The open event of a socket that close() caught while it was
\* connecting may already be queued, so it can still be dispatched.
onopen(i) ==
    /\ sockets[i].readyState \in {"connecting", "closing"}
    /\ ~sockets[i].opened
    /\ IF unmounted
       THEN /\ sockets' = [sockets EXCEPT ![i] = close([@ EXCEPT
                              !.readyState = "open", !.opened = TRUE])]
            /\ UNCHANGED <<connected, retryMs, failRun>>
       ELSE /\ sockets' = [sockets EXCEPT
                  ![i].readyState = IF @ = "closing" THEN @ ELSE "open",
                  ![i].opened = TRUE]
            /\ connected' = TRUE
            /\ retryMs' = INITIAL_RETRY_MS
            /\ failRun' = 0
    /\ lastEvent' = "open"
    /\ UNCHANGED <<wsRef, hookState, retryTimer, timers, unmounted, droppedOn,
                   teardownFrom, nsVars, etVars, viewVars,
                   pollVars, topoVars, detailVars, pathVars>>

onmessageStoresUnparsed(i, payload) ==
    /\ sockets[i].readyState = "open"
    /\ SentOn(sockets[i], payload)
    /\ IF unmounted
       THEN UNCHANGED <<hookState, droppedOn>>
       ELSE /\ hookState' = payload.value
            /\ droppedOn' = IF payload.parses THEN droppedOn
                            ELSE droppedOn \cup {i}
    /\ lastEvent' = IF payload.parses THEN "message" ELSE "malformed"
    /\ UNCHANGED <<sockets, wsRef, connected, retryMs, retryTimer, timers,
                   unmounted, failRun, teardownFrom, nsVars, etVars, viewVars,
                   pollVars, topoVars, detailVars, pathVars>>

\* ws.onmessage: messages are dispatched on OPEN sockets only.
onmessage(i, payload) ==
    /\ sockets[i].readyState = "open"
    /\ SentOn(sockets[i], payload)
    /\ IF unmounted
       THEN UNCHANGED <<hookState, droppedOn>>
       ELSE IF payload.parses
            THEN hookState' = payload.value /\ UNCHANGED droppedOn
            ELSE droppedOn' = droppedOn \cup {i} /\ UNCHANGED hookState
    /\ lastEvent' = IF payload.parses THEN "message" ELSE "malformed"
    /\ UNCHANGED <<sockets, wsRef, connected, retryMs, retryTimer, timers,
                   unmounted, failRun, teardownFrom, nsVars, etVars, viewVars,
                   pollVars, topoVars, detailVars, pathVars>>

oncloseIgnoresUnmounted(i) ==
    /\ sockets[i].readyState # "closed"
    /\ unmounted \/ Len(sockets) < SocketCap
    /\ sockets' = [sockets EXCEPT ![i].readyState = "closed"]
    /\ connected' = FALSE
    /\ timers' = Append(timers,
          [delay |-> retryMs, status |-> "pending", attempt |-> failRun + 1,
           socketOpened |-> sockets[i].opened, contextId |-> sockets[i].url])
    /\ retryTimer' = Len(timers) + 1
    /\ failRun' = failRun + 1
    /\ lastEvent' = "close"
    /\ UNCHANGED <<wsRef, hookState, retryMs, unmounted, droppedOn,
                   teardownFrom, nsVars, etVars, viewVars,
                   pollVars, topoVars, detailVars, pathVars>>

\* onclose that sets the timer and also reconnects at once.
oncloseReconnectsAtOnce(i) ==
    /\ sockets[i].readyState # "closed"
    /\ unmounted \/ Len(sockets) < SocketCap
    /\ IF unmounted
       THEN /\ sockets' = [sockets EXCEPT ![i].readyState = "closed"]
            /\ UNCHANGED <<connected, retryTimer, timers, failRun, wsRef>>
       ELSE /\ sockets' = Append([sockets EXCEPT ![i].readyState = "closed"],
                                 Socket(sockets[i].url))
            /\ wsRef' = Len(sockets) + 1
            /\ connected' = FALSE
            /\ timers' = Append(timers,
                  [delay |-> retryMs, status |-> "pending",
                   attempt |-> failRun + 1,
                   socketOpened |-> sockets[i].opened,
                   contextId |-> sockets[i].url])
            /\ retryTimer' = Len(timers) + 1
            /\ failRun' = failRun + 1
    /\ lastEvent' = "close"
    /\ UNCHANGED <<hookState, retryMs, unmounted, droppedOn,
                   teardownFrom, nsVars, etVars, viewVars,
                   pollVars, topoVars, detailVars, pathVars>>

\* ws.onclose: the connect failed, the connection dropped, or a close() has
\* completed.  The timer callback calls the connect of the render that made
\* the socket, with that render's contextId.  While mounted the channel
\* fails until it has made SocketCap sockets.
onclose(i) ==
    /\ sockets[i].readyState # "closed"
    /\ unmounted \/ Len(sockets) < SocketCap
    /\ sockets' = [sockets EXCEPT ![i].readyState = "closed"]
    /\ IF unmounted
       THEN UNCHANGED <<connected, retryTimer, timers, failRun>>
       ELSE /\ connected' = FALSE
            /\ timers' = Append(timers,
                  [delay |-> retryMs, status |-> "pending",
                   attempt |-> failRun + 1,
                   socketOpened |-> sockets[i].opened,
                   contextId |-> sockets[i].url])
            /\ retryTimer' = Len(timers) + 1
            /\ failRun' = failRun + 1
    /\ lastEvent' = "close"
    /\ UNCHANGED <<wsRef, hookState, retryMs, unmounted, droppedOn,
                   teardownFrom, nsVars, etVars, viewVars,
                   pollVars, topoVars, detailVars, pathVars>>

retryTimerFiresUncapped(t) ==
    /\ timers[t].status = "pending"
    /\ timers' = [timers EXCEPT ![t].status = "fired"]
    /\ retryMs' = retryMs * 2
    /\ connect(timers[t].contextId)
    /\ lastEvent' = "timer"
    /\ UNCHANGED <<hookState, connected, retryTimer, unmounted, failRun,
                   droppedOn, teardownFrom, nsVars, etVars, viewVars,
                   pollVars, topoVars, detailVars, pathVars>>

retryTimerFiresGivesUp(t) ==
    /\ timers[t].status = "pending"
    /\ timers' = [timers EXCEPT ![t].status = "fired"]
    /\ retryMs' = Min(retryMs * 2, MAX_RETRY_MS)
    /\ IF retryMs = MAX_RETRY_MS THEN UNCHANGED <<sockets, wsRef>>
       ELSE connect(timers[t].contextId)
    /\ lastEvent' = "timer"
    /\ UNCHANGED <<hookState, connected, retryTimer, unmounted, failRun,
                   droppedOn, teardownFrom, nsVars, etVars, viewVars,
                   pollVars, topoVars, detailVars, pathVars>>

\* The reconnect timer fires: double the delay up to the ceiling; connect().
retryTimerFires(t) ==
    /\ timers[t].status = "pending"
    /\ timers' = [timers EXCEPT ![t].status = "fired"]
    /\ retryMs' = Min(retryMs * 2, MAX_RETRY_MS)
    /\ connect(timers[t].contextId)
    /\ lastEvent' = "timer"
    /\ UNCHANGED <<hookState, connected, retryTimer, unmounted, failRun,
                   droppedOn, teardownFrom, nsVars, etVars, viewVars,
                   pollVars, topoVars, detailVars, pathVars>>

cleanupKeepsTimer ==
    /\ ~unmounted
    /\ unmounted' = TRUE
    /\ sockets' = IF wsRef # 0
                  THEN [sockets EXCEPT ![wsRef] = close(@)]
                  ELSE sockets
    /\ wsRef' = 0
    /\ teardownFrom' = ChannelState
    /\ lastEvent' = "teardown"
    /\ UNCHANGED <<hookState, connected, retryMs, retryTimer, timers, failRun,
                   droppedOn, nsVars, etVars, viewVars,
                   pollVars, topoVars, detailVars, pathVars>>

\* The effect cleanup on unmount.
cleanup ==
    /\ ~unmounted
    /\ unmounted' = TRUE
    /\ timers' = IF retryTimer # 0 /\ timers[retryTimer].status = "pending"
                 THEN [timers EXCEPT ![retryTimer].status = "cleared"]
                 ELSE timers
    /\ sockets' = IF wsRef # 0
                  THEN [sockets EXCEPT ![wsRef] = close(@)]
                  ELSE sockets
    /\ wsRef' = 0
    /\ teardownFrom' = ChannelState
    /\ lastEvent' = "teardown"
    /\ UNCHANGED <<hookState, connected, retryMs, retryTimer, failRun,
                   droppedOn, nsVars, etVars, viewVars,
                   pollVars, topoVars, detailVars, pathVars>>

WsNext ==
    \/ \E i \in 1..Len(sockets) : onopen(i)
    \/ \E i \in 1..Len(sockets) : \E payload \in WsPayloads :
          onmessage(i, payload)
    \/ \E i \in 1..Len(sockets) : onclose(i)
    \/ \E t \in 1..Len(timers) : retryTimerFires(t)
    \/ cleanup

SpecWs == WsInit /\ [][WsNext]_vars

\* setTimeout callbacks run once their delay has elapsed.
SpecWsLive ==
    SpecWs /\ \A t \in 1..MaxSockets : WF_vars(t <= Len(timers) /\ retryTimerFires(t))

\* C13: over a run of consecutive failed connects the k-th reconnect delay is
\* min(2^(k-1), 16) units of 1000 ms (1, 2, 4, 8, 16, 16, ...), and the
\* stored retry delay stays within [1000 ms, 16000 ms].
C13_BackoffDoublesToCeiling ==
    /\ retryMs >= 1000 /\ retryMs <= 16000
    /\ \A t \in 1..Len(timers) :
          timers[t].delay = Min(2 ^ (timers[t].attempt - 1), 16) * 1000

\* Six closes in a row without an open: the sixth waits 16 units again.
C13_Witness ==
    \E t \in 1..Len(timers) :
        timers[t].attempt = 6 /\ timers[t].delay = 16000

\* C14: after a successful connect the backoff is the minimum again: the
\* reconnect scheduled by the next disconnect waits exactly 1000 ms, however
\* many failed attempts came before the connect.
C14_OpenResetsBackoff ==
    \A t \in 1..Len(timers) :
        timers[t].socketOpened => timers[t].delay = INITIAL_RETRY_MS

\* Three failed connects (delays 1000, 2000, 4000), then a socket that
\* opened and dropped: its reconnect waits 1000 ms.
C14_Witness ==
    \E t \in 2..Len(timers) :
        /\ timers[t].socketOpened
        /\ timers[t - 1].delay = 4000
        /\ timers[t].delay = 1000

\* C15: a message whose payload cannot be parsed leaves the held snapshot,
\* the connected flag and the backoff delay unchanged, closes no socket and
\* schedules no reconnect; the socket stays open for later messages.
C15_MalformedMessageDropped ==
    [][lastEvent' = "malformed" =>
          /\ UNCHANGED <<hookState, connected, retryMs, sockets, wsRef,
                         timers, retryTimer>>
          /\ \E i \in 1..Len(sockets') : sockets'[i].readyState = "open"]_vars

\* A well-formed snapshot is stored from a socket that earlier dropped a
\* malformed message.
C15_Witness ==
    /\ lastEvent = "message"
    /\ hookState \in [pipeline_id : {ContextId}, status : {"running", "complete"}]
    /\ \E i \in droppedOn : sockets[i].readyState = "open"

\* C16: once the cleanup has run, no later open, message, close or timer
\* event changes the held snapshot or the connected flag, and no socket is
\* created.
C16_NothingChangesAfterTeardown ==
    [][unmounted =>
          /\ hookState' = hookState
          /\ connected' = connected
          /\ Len(sockets') = Len(sockets)]_vars

\* The hook was torn down while connected and holding a snapshot; the close
\* event of its socket has since been delivered.
C16_Witness ==
    /\ unmounted /\ lastEvent = "close" /\ teardownFrom = "connected"
    /\ connected /\ hookState # Null
    /\ \A i \in 1..Len(sockets) : sockets[i].readyState = "closed"

\* C17: after the cleanup, whichever channel state it ran in, no reconnect
\* timer is pending and no socket is open or connecting.
C17_TeardownLeavesNothingLive ==
    unmounted =>
        /\ teardownFrom \in {"connected", "awaitingReconnect",
                             "awaitingFirst", "reconnecting"}
        /\ \A t \in 1..Len(timers) : timers[t].status # "pending"
        /\ \A i \in 1..Len(sockets) :
              sockets[i].readyState \notin {"open", "connecting"}
        /\ wsRef = 0

\* The cleanup ran while a reconnect timer was pending and cancelled it.
C17_Witness ==
    /\ unmounted /\ teardownFrom = "awaitingReconnect"
    /\ timers # <<>> /\ timers[Len(timers)].status = "cleared"

\* C18: while the hook stays mounted every disconnect is followed by a new
\* connect attempt, after any number of earlier failures; a disconnect only
\* clears the connected flag and schedules the reconnect.
C18_DisconnectLeadsToReconnect ==
    /\ \A n \in 1..MaxSockets :
          (~unmounted /\ Len(timers) >= n /\ timers[n].status = "pending")
              ~> (unmounted \/ Len(sockets) > n)
    /\ [][(lastEvent' = "close" /\ ~unmounted) =>
             /\ connected' = FALSE
             /\ UNCHANGED <<hookState, retryMs, wsRef, unmounted>>
             /\ Len(timers') = Len(timers) + 1]_vars

\* The hook reconnected after every one of MaxSockets - 1 failures.
C18_Witness ==
    /\ ~unmounted /\ Len(sockets) = MaxSockets
    /\ Len(timers) = MaxSockets - 1
    /\ sockets[MaxSockets].readyState = "connecting"

\* -------------------------------------------------------------- usePolling
MaxTicks == 3       \* requests after the first before the model stops the clock

\* What fetcher() may resolve with.
PollResults == { [fleet |-> n] : n \in 1..2 }

\* What fetcher() may reject with: an Error, or a value that is not one.
PollRejections ==
    { [isError |-> TRUE, message |-> "API error 500: Internal Server Error"],
      [isError |-> FALSE, message |-> "timeout"] }

\* doFetch() up to its await: one fetcher() call is in flight.
doFetch(via) ==
    requests' = Append(requests, [status |-> "pending", via |-> via,
                                  result |-> Null])

\* The hook has rendered once; its effect has not run yet.
PollInit ==
    /\ pollData = Null
    /\ pollError = "null"
    /\ pollLoading = TRUE
    /\ timerRef = 0
    /\ intervals = <<>>
    /\ requests = <<>>
    /\ pollPc = "rendered"
    /\ ticks = 0
    /\ pollEvent = "none"
    /\ NsParked
    /\ EtParked
    /\ ViewParked
    /\ HookParked
    /\ TopoParked
    /\ DetailParked
    /\ PathParked

pollEffectWaitsForTick ==
    /\ pollPc = "rendered"
    /\ intervals' = Append(intervals, "live")
    /\ timerRef' = Len(intervals) + 1
    /\ pollPc' = "active"
    /\ pollEvent' = "effect"
    /\ UNCHANGED <<pollData, pollError, pollLoading, requests, ticks, nsVars,
                   etVars, viewVars, hookVars, topoVars, detailVars,
                   pathVars>>

\* The effect: doFetch(); timerRef.current = setInterval(doFetch, intervalMs).
pollEffect ==
    /\ pollPc = "rendered"
    /\ doFetch("activation")
    /\ intervals' = Append(intervals, "live")
    /\ timerRef' = Len(intervals) + 1
    /\ pollPc' = "active"
    /\ pollEvent' = "effect"
    /\ UNCHANGED <<pollData, pollError, pollLoading, ticks, nsVars, etVars,
                   viewVars, hookVars, topoVars, detailVars, pathVars>>

\* A live interval timer ticks: doFetch().
intervalTick(k) ==
    /\ intervals[k] = "live"
    /\ ticks < MaxTicks /\ Len(requests) <= MaxTicks
    /\ doFetch("tick")
    /\ ticks' = ticks + 1
    /\ pollEvent' = "tick"
    /\ UNCHANGED <<pollData, pollError, pollLoading, timerRef, intervals,
                   pollPc, nsVars, etVars, viewVars, hookVars, topoVars,
                   detailVars, pathVars>>

\* doFetch after the await, fetcher() resolved: setData, setError(null),
\* and the finally block.
fetchResolves(r, result) ==
    /\ requests[r].status = "pending"
    /\ requests' = [requests EXCEPT ![r].status = "resolved",
                                    ![r].result = result]
    /\ pollData' = result
    /\ pollError' = "null"
    /\ pollLoading' = FALSE
    /\ pollEvent' = "resolved"
    /\ UNCHANGED <<timerRef, intervals, pollPc, ticks, nsVars, etVars,
                   viewVars, hookVars, topoVars, detailVars, pathVars>>

fetchRejectsStopsTimer(r, err) ==
    /\ requests[r].status = "pending"
    /\ requests' = [requests EXCEPT ![r].status = "rejected"]
    /\ pollError' = IF err.isError THEN err.message ELSE "Unknown error"
    /\ pollLoading' = FALSE
    /\ intervals' = [k \in 1..Len(intervals) |-> "cleared"]
    /\ pollEvent' = "rejected"
    /\ UNCHANGED <<pollData, timerRef, pollPc, ticks, nsVars, etVars,
                   viewVars, hookVars, topoVars, detailVars, pathVars>>

fetchRejectsClearsData(r, err) ==
    /\ requests[r].status = "pending"
    /\ requests' = [requests EXCEPT ![r].status = "rejected"]
    /\ pollData' = Null
    /\ pollError' = IF err.isError THEN err.message ELSE "Unknown error"
    /\ pollLoading' = FALSE
    /\ pollEvent' = "rejected"
    /\ UNCHANGED <<timerRef, intervals, pollPc, ticks, nsVars, etVars,
                   viewVars, hookVars, topoVars, detailVars, pathVars>>

\* doFetch after the await, fetcher() rejected: the catch and the finally
\* block.
fetchRejects(r, err) ==
    /\ requests[r].status = "pending"
    /\ requests' = [requests EXCEPT ![r].status = "rejected"]
    /\ pollError' = IF err.isError THEN err.message ELSE "Unknown error"
    /\ pollLoading' = FALSE
    /\ pollEvent' = "rejected"
    /\ UNCHANGED <<pollData, timerRef, intervals, pollPc, ticks, nsVars,
                   etVars, viewVars, hookVars, topoVars, detailVars,
                   pathVars>>

pollCleanupKeepsTimer ==
    /\ pollPc = "active"
    /\ pollPc' = "unmounted"
    /\ pollEvent' = "teardown"
    /\ UNCHANGED <<pollData, pollError, pollLoading, timerRef, intervals,
                   requests, ticks, nsVars, etVars, viewVars, hookVars,
                   topoVars, detailVars, pathVars>>

\* The effect cleanup on unmount: clearInterval(timerRef.current).
pollCleanup ==
    /\ pollPc = "active"
    /\ intervals' = IF timerRef # 0
                    THEN [intervals EXCEPT ![timerRef] = "cleared"]
                    ELSE intervals
    /\ pollPc' = "unmounted"
    /\ pollEvent' = "teardown"
    /\ UNCHANGED <<pollData, pollError, pollLoading, timerRef, requests,
                   ticks, nsVars, etVars, viewVars, hookVars, topoVars,
                   detailVars, pathVars>>

PollNext ==
    \/ pollEffect
    \/ \E k \in 1..Len(intervals) : intervalTick(k)
    \/ \E r \in 1..Len(requests) : \E result \in PollResults :
          fetchResolves(r, result)
    \/ \E r \in 1..Len(requests) : \E err \in PollRejections :
          fetchRejects(r, err)
    \/ pollCleanup

SpecPoll == PollInit /\ [][PollNext]_vars

\* C19: a failed fetch records the error and leaves the interval timer
\* running: while mounted the timer stays live after any number of failures,
\* each tick issues one more request, and a later successful fetch replaces
\* the held data and clears the error.
C19_FailedFetchKeepsPolling ==
    /\ [](pollPc = "active" => timerRef # 0 /\ intervals[timerRef] = "live")
    /\ [][/\ pollEvent' = "rejected" =>
                /\ pollError' # "null"
                /\ UNCHANGED <<intervals, timerRef, pollData>>
          /\ pollEvent' = "tick" =>
                /\ Len(requests') = Len(requests) + 1
                /\ requests'[Len(requests')].status = "pending"
          /\ pollEvent' = "resolved" =>
                /\ pollError' = "null"
                /\ \E r \in 1..Len(requests) :
                      /\ requests[r].status = "pending"
                      /\ requests'[r].status = "resolved"
                      /\ pollData' = requests'[r].result]_vars

\* Two fetches failed, the timer ticked again, and that tick's fetch
\* succeeded: the error is cleared and its result is held.
C19_Witness ==
    /\ pollPc = "active" /\ Len(requests) = 3
    /\ requests[1].status = "rejected" /\ requests[2].status = "rejected"
    /\ requests[3].status = "resolved" /\ requests[3].via = "tick"
    /\ pollError = "null" /\ pollData = requests[3].result

\* C20: on activation the hook issues exactly one fetch at once, before any
\* tick, and after that exactly one fetch per interval tick.
C20_OneFetchAtOnceThenOnePerTick ==
    /\ Len(requests) = (IF pollPc = "rendered" THEN 0 ELSE 1) + ticks
    /\ \A r \in 1..Len(requests) :
          requests[r].via = (IF r = 1 THEN "activation" ELSE "tick")

\* The first fetch has already settled and no tick has happened yet.
C20_Witness ==
    /\ pollPc = "active" /\ ticks = 0
    /\ Len(requests) = 1 /\ requests[1].status = "resolved"
    /\ pollData # Null /\ ~pollLoading

\* ---------------------------------------- usePolling with a re-run effect
MaxReruns == 1      \* changes of fetcher / intervalMs while mounted

\* doFetch or intervalMs changed: React runs the old effect's cleanup and
\* then the effect again, within one commit.
pollEffectRerun ==
    /\ pollPc = "active"
    /\ Len(intervals) <= MaxReruns /\ Len(requests) <= MaxTicks
    /\ doFetch("activation")
    /\ intervals' = Append(IF timerRef # 0
                           THEN [intervals EXCEPT ![timerRef] = "cleared"]
                           ELSE intervals, "live")
    /\ timerRef' = Len(intervals) + 1
    /\ pollEvent' = "rerun"
    /\ UNCHANGED <<pollData, pollError, pollLoading, pollPc, ticks, nsVars,
                   etVars, viewVars, hookVars, topoVars, detailVars,
                   pathVars>>

PollRerunNext ==
    \/ pollEffect
    \/ pollEffectRerun
    \/ \E k \in 1..Len(intervals) : intervalTick(k)
    \/ \E r \in 1..Len(requests) : \E result \in PollResults :
          fetchResolves(r, result)
    \/ \E r \in 1..Len(requests) : \E err \in PollRejections :
          fetchRejects(r, err)
    \/ pollCleanup

SpecPollRerun == PollInit /\ [][PollRerunNext]_vars

LiveIntervals == { k \in 1..Len(intervals) : intervals[k] = "live" }

\* C21: at most one polling timer is live at any time, also across changes
\* of the fetcher or the interval; after the teardown none is live and no
\* further request is issued, whatever became of the earlier fetches.
C21_NoTimerAfterTeardown ==
    /\ [](Cardinality(LiveIntervals) <= 1)
    /\ [](pollPc = "unmounted" => LiveIntervals = {})
    /\ [][pollPc = "unmounted" => Len(requests') = Len(requests)]_vars

\* The effect re-ran, the hook was torn down with one fetch settled
\* and one still in flight, and a fetch has settled since.
C21_Witness ==
    /\ pollPc = "unmounted" /\ Len(intervals) = MaxReruns + 1
    /\ pollEvent \in {"resolved", "rejected"}
    /\ \E r \in 1..Len(requests) : requests[r].status = "pending"
    /\ \E r \in 1..Len(requests) : requests[r].status = "rejected"
    /\ \E r \in 1..Len(requests) : requests[r].status = "resolved"

\* ------------------------------------------ step 1 of layoutPipeline alone
MaxChain == 3       \* most targets of one edge statement
MaxStmts == 2       \* most edge statements of one description

\* Edge statements: a chain of MaxChain targets at most over A and B,
\* starting at A, with or without a label attribute.
TopoChains ==
    { c \in SeqsUpTo({"A", "B"}, MaxChain) : Len(c) >= 2 /\ c[1] = "A" }

TopoStmts ==
    { [targets |-> c, attributes |-> a] :
        c \in TopoChains, a \in {<<>>, [k \in {"label"} |-> "next"]} }

\* What fromDot makes of a description.  The node list holds the node
\* statements and, depending on the parser, the nodes named in edges only.
\* When it throws, nodes and edges are what it had read up to the error.
TopoDots ==
    [parses : BOOLEAN,
     nodes : {<<>>, <<"A">>, <<"A", "B">>},
     edges : SeqsUpTo(TopoStmts, MaxStmts)]

TopoNodeMaps ==
    { << NodeInfo("A", "Alpha", "llm"), NodeInfo("B", "", "llm") >>,
      << NodeInfo("B", "Beta", "tool") >> }

TopoEdgeInfos ==
    { <<>>,
      << [from_node |-> "A", to_node |-> "B", label |-> "next"],
         [from_node |-> "B", to_node |-> "A", label |-> ""] >> }

TopoSnapshots ==
    [dot_source : TopoDots, nodes : TopoNodeMaps, edges : TopoEdgeInfos]

TopoInit ==
    /\ tpState \in TopoSnapshots
    /\ tpTopology = Null
    /\ tpDone = FALSE
    /\ NsParked
    /\ EtParked
    /\ ViewParked
    /\ HookParked
    /\ PollParked
    /\ DetailParked
    /\ PathParked

\* layoutPipeline runs its step 1 on the snapshot.
TopoExtract ==
    /\ ~tpDone
    /\ tpTopology' = ExtractTopology(tpState)
    /\ tpDone' = TRUE
    /\ UNCHANGED <<tpState, nsVars, etVars, viewVars, hookVars, pollVars,
                   detailVars, pathVars>>

TopoNext == TopoExtract

SpecTopo == TopoInit /\ [][TopoNext]_vars

\* The topology built from the snapshot alone.
TopoFromSnapshot ==
    [dotNodes |-> [i \in 1..Len(tpState.nodes) |-> tpState.nodes[i].id],
     dotEdges |-> [i \in 1..Len(tpState.edges) |->
                     [source |-> tpState.edges[i].from_node,
                      target |-> tpState.edges[i].to_node,
                      label |-> tpState.edges[i].label]]]

\* C22: when parsing the description throws, the topology is the one built
\* from the snapshot: its nodes are the keys of the node map, its edges the
\* snapshot's edge list in order with the same from / to / label, and nothing
\* read before the failure is kept.
C22_ParseFailureFallsBackToSnapshot ==
    (tpDone /\ ~tpState.dot_source.parses) =>
        /\ tpTopology.dotNodes =
              [i \in 1..Len(tpState.nodes) |-> tpState.nodes[i].id]
        /\ Len(tpTopology.dotEdges) = Len(tpState.edges)
        /\ \A i \in 1..Len(tpState.edges) :
              /\ tpTopology.dotEdges[i].source = tpState.edges[i].from_node
              /\ tpTopology.dotEdges[i].target = tpState.edges[i].to_node
              /\ tpTopology.dotEdges[i].label = tpState.edges[i].label

\* The parser had read nodes and edges before it threw, and the snapshot
\* lists other ones.
C22_Witness ==
    /\ tpDone /\ ~tpState.dot_source.parses
    /\ tpState.dot_source.nodes = <<"A", "B">>
    /\ Len(tpState.dot_source.edges) = MaxStmts
    /\ tpTopology.dotNodes = <<"B">>
    /\ Len(tpTopology.dotEdges) = 2

\* An edge of the parsed graph has an endpoint that is not a parsed node.
TopoParseInconsistent ==
    \E j \in 1..Len(tpState.dot_source.edges) :
        \E i \in 1..Len(tpState.dot_source.edges[j].targets) :
            \A k \in 1..Len(tpState.dot_source.nodes) :
                tpState.dot_source.nodes[k] #
                    tpState.dot_source.edges[j].targets[i]

\* C23: when parsing returns a graph that is inconsistent (an edge endpoint
\* is not among the parsed nodes), the parsed result is discarded and the
\* topology is the one built from the snapshot.
C23_InconsistentParseFallsBack ==
    (tpDone /\ tpState.dot_source.parses /\ TopoParseInconsistent) =>
        tpTopology = TopoFromSnapshot

\* Edges that the statements before the j-th one expand into.
RECURSIVE TopoOffset(_, _)
TopoOffset(stmts, j) ==
    IF j <= 1 THEN 0
    ELSE TopoOffset(stmts, j - 1) + Len(stmts[j - 1].targets) - 1

\* C29: an edge statement t1 -> t2 -> ... -> tn of a parsed description is
\* expanded into exactly the n - 1 edges (t1,t2), ..., (t(n-1),tn), in that
\* order, each with the statement's label ("" when it has none), and the
\* topology has no other edges.
C29_ChainExpandsToConsecutivePairs ==
    (tpDone /\ tpState.dot_source.parses) =>
        LET stmts == tpState.dot_source.edges
        IN  /\ Len(tpTopology.dotEdges) = TopoOffset(stmts, Len(stmts) + 1)
            /\ \A j \in 1..Len(stmts) :
                  \A i \in 1..(Len(stmts[j].targets) - 1) :
                      LET e == tpTopology.dotEdges[TopoOffset(stmts, j) + i]
                      IN  /\ e.source = stmts[j].targets[i]
                          /\ e.target = stmts[j].targets[i + 1]
                          /\ e.label =
                               (IF "label" \in DOMAIN stmts[j].attributes
                                THEN stmts[j].attributes["label"] ELSE "")

\* A labelled chain of MaxChain targets followed by a chain without a label.
C29_Witness ==
    /\ tpDone /\ tpState.dot_source.parses
    /\ Len(tpState.dot_source.edges) = 2
    /\ Len(tpState.dot_source.edges[1].targets) = MaxChain
    /\ "label" \in DOMAIN tpState.dot_source.edges[1].attributes
    /\ tpState.dot_source.edges[2].attributes = <<>>
    /\ Len(tpTopology.dotEdges) >= MaxChain

\* C24: when elk.layout rejects, the view ends in the load-error state and
\* stays there: no nodes or edges are set for rendering and no later push
\* snapshot is merged or makes the graph appear.
C24_LayoutFailureShowsErrorOnly ==
    /\ [](error = "layout failed" =>
             /\ ~loading /\ ~Displayed /\ ~layoutDone
             /\ nodes = <<>> /\ edges = <<>>
             /\ pushApplied = Null)
    /\ [][error = "layout failed" =>
             (error' = "layout failed" /\ state' = state)]_vars

\* The layout failed, and a push snapshot has since arrived and been seen by
\* the push effect.
C24_Witness ==
    /\ error = "layout failed" /\ loadPc = "done"
    /\ wsState # Null /\ wsState # state /\ ~wsEffectPending
    /\ nodes = <<>>

\* ------------------------------------- PipelineView: selection and detail
MaxClicks == 3      \* node clicks, each one issuing a detail read

\* What GET /api/pipelines/{contextId}/nodes/{nodeId} resolves with.
NodeDetailOf(nodeId) ==
    [node_id |-> nodeId, prompt |-> <<"prompt of", nodeId>>,
     response |-> <<"response of", nodeId>>]

\* The snapshot the view has loaded and laid out.
DetailLoaded ==
    [dot_source |-> DotGraph, status |-> ProgressLooped.status,
     nodes |-> << NodeInfo("A", "Alpha", "llm"), NodeInfo("B", "", "llm") >>,
     edges |-> ViewEdgeInfos,
     execution_path |-> ProgressLooped.execution_path,
     node_runs |-> ProgressLooped.node_runs,
     loop_iterations |-> ProgressLooped.loop_iterations]

\* The graph is displayed (load() has finished without an error) and the
\* detail effect has run once with no selection: setNodeDetail(null).
DetailInit ==
    /\ state = DetailLoaded
    /\ nodes = LayoutNodes(DetailLoaded, ExtractTopology(DetailLoaded), 1)
    /\ edges = LayoutEdges(DetailLoaded, ExtractTopology(DetailLoaded))
    /\ error = "null"
    /\ loading = FALSE
    /\ layoutDone = TRUE
    /\ wsState = Null
    /\ wsConnected = TRUE
    /\ chan = "open"
    /\ wsEffectPending = FALSE
    /\ loadPc = "done"
    /\ inFlight = <<>>
    /\ layoutCalls = 1
    /\ initialNodes = nodes
    /\ pushApplied = Null
    /\ selectedNodeId = "null"
    /\ nodeDetail = Null
    /\ detailLoading = FALSE
    /\ detailReads = <<>>
    /\ NsParked
    /\ EtParked
    /\ HookParked
    /\ PollParked
    /\ TopoParked
    /\ PathParked

\* onNodeClick on a displayed node other than the selected one, and the
\* [selectedNodeId, contextId] effect of the render that follows:
\* setDetailLoading(true); getNode(contextId, selectedNodeId).
onNodeClick(i) ==
    /\ Len(detailReads) < MaxClicks
    /\ nodes[i].id # selectedNodeId
    /\ selectedNodeId' = nodes[i].id
    /\ detailLoading' = TRUE
    /\ detailReads' = Append(detailReads,
                             [nodeId |-> nodes[i].id, status |-> "pending"])
    /\ UNCHANGED <<nodeDetail, nsVars, etVars, viewVars, hookVars, pollVars,
                   topoVars, pathVars>>

\* getNode resolves: .then(setNodeDetail).finally(() => setDetailLoading(false))
detailResolves(r) ==
    /\ detailReads[r].status = "pending"
    /\ detailReads' = [detailReads EXCEPT ![r].status = "resolved"]
    /\ nodeDetail' = NodeDetailOf(detailReads[r].nodeId)
    /\ detailLoading' = FALSE
    /\ UNCHANGED <<selectedNodeId, nsVars, etVars, viewVars, hookVars,
                   pollVars, topoVars, pathVars>>

\* getNode rejects: .catch(() => setNodeDetail(null)).finally(...)
detailRejects(r) ==
    /\ detailReads[r].status = "pending"
    /\ detailReads' = [detailReads EXCEPT ![r].status = "rejected"]
    /\ nodeDetail' = Null
    /\ detailLoading' = FALSE
    /\ UNCHANGED <<selectedNodeId, nsVars, etVars, viewVars, hookVars,
                   pollVars, topoVars, pathVars>>

DetailNext ==
    \/ \E i \in 1..Len(nodes) : onNodeClick(i)
    \/ \E r \in 1..Len(detailReads) : detailResolves(r)
    \/ \E r \in 1..Len(detailReads) : detailRejects(r)

SpecDetail == DetailInit /\ [][DetailNext]_vars

\* C25: a failed read is surfaced to the view as an error string: once the
\* detail read of the selected node has failed, the view holds an error.
C25_DetailReadFailureSurfaced ==
    (\E r \in 1..Len(detailReads) : detailReads[r].status = "rejected")
        => error # "null"

\* --------------------------------------------------- PipelineNode (render)
\* formatDuration: "" for 0, "<ms>ms" below a second, else seconds with one
\* decimal (toFixed(1): the nearest tenth, the larger one on a tie).
formatDuration(ms) ==
    IF ms = 0 THEN <<>>
    ELSE IF ms < 1000 THEN <<ms, "ms">>
    ELSE <<((ms + 50) \div 100) \div 10, ".", ((ms + 50) \div 100) % 10, "s">>

\* The elements PipelineNode renders for one node's data, in order.
PipelineNode(nodeData) ==
    << [kind |-> "label", text |-> <<nodeData.label>>] >>
    \o (IF nodeData.nodeInfo.type # ""
        THEN << [kind |-> "type", text |-> <<nodeData.nodeInfo.type>>] >>
        ELSE <<>>)
    \o (IF nodeData.durationMs > 0
        THEN << [kind |-> "separator", text |-> <<"&middot;">>],
                [kind |-> "duration",
                 text |-> formatDuration(nodeData.durationMs)] >>
        ELSE <<>>)
    \o (IF nodeData.state = "running"
        THEN << [kind |-> "running", text |-> <<"running...">>] >>
        ELSE <<>>)

\* C26: a displayed node's loop badge value is the held snapshot's
\* loop_iterations entry for the node (0 when absent), and the node is
\* rendered with a loop badge showing it exactly when that value is > 0.
C26_LoopBadgeShownWhenLooped ==
    Displayed =>
        \A i \in 1..Len(nodes) :
            /\ nodes[i].data.loopCount =
                  (IF nodes[i].id \in DOMAIN state.loop_iterations
                   THEN state.loop_iterations[nodes[i].id] ELSE 0)
            /\ (\E k \in 1..Len(PipelineNode(nodes[i].data)) :
                   /\ PipelineNode(nodes[i].data)[k].kind = "loopBadge"
                   /\ PipelineNode(nodes[i].data)[k].text =
                         <<"x", nodes[i].data.loopCount>>)
                  <=> nodes[i].data.loopCount > 0

\* A value that has the shape of a PipelineRunState (as far as the hook's
\* model keeps its fields).
IsPipelineRunState(v) ==
    v \in [pipeline_id : {ContextId}, status : PipelineStatuses]

\* C27: a message whose payload parses but is not a snapshot object (null, a
\* number) is dropped: whenever a message changes the held snapshot, the new
\* value is a snapshot, and the socket stays open.
C27_NonSnapshotPayloadDropped ==
    [][lastEvent' = "message" =>
          /\ hookState' # hookState => IsPipelineRunState(hookState')
          /\ UNCHANGED <<sockets, connected>>]_vars

C30_DataReplacedWholeOrKept ==
    /\ [](pollData = Null \/ pollData \in PollResults)
    /\ [][/\ pollEvent' = "rejected" =>
                (pollData' = pollData /\ pollError' # "null")
          /\ pollEvent' = "resolved" =>
                \E r \in 1..Len(requests) :
                    /\ requests[r].status = "pending"
                    /\ requests'[r].result \in PollResults
                    /\ pollData' = requests'[r].result]_vars

\* Two fetches returned different values, the second replaced the first,
\* and a later fetch failed: the second value is still held.
C30_Witness ==
    /\ Len(requests) >= 3 /\ pollEvent = "rejected"
    /\ requests[1].status = "resolved" /\ requests[2].status = "resolved"
    /\ requests[1].result # requests[2].result
    /\ requests[3].status = "rejected"
    /\ pollData = requests[2].result /\ pollError # "null"

\* ------------------------------------- PipelineEdge: path and label anchor
MaxBends == 2       \* bend points of a routed section
DefaultCornerRadius == 8

\* ELK is configured with ORTHOGONAL edge routing, so every segment of a
\* section runs along one axis.  The routes below take integer coordinates
\* on a small grid; the lengths they give fall on both sides of twice the
\* corner radius.  Coordinates the component computes are held in half
\* units (the value times two), which keeps len / 2 exact.
EpCoords == {0, 6, 30}

Abs(n) == IF n < 0 THEN -n ELSE n
Point(x, y) == [x |-> x, y |-> y]
Twice(p) == Point(2 * p.x, 2 * p.y)
EpPoints == {Point(x, y) : x \in EpCoords, y \in EpCoords}
Aligned(p, q) == p.x = q.x \/ p.y = q.y

\* The routes of n points: consecutive points share a coordinate (two equal
\* consecutive points make a zero-length segment).
RECURSIVE EpRoutesOf(_)
EpRoutesOf(n) ==
    IF n = 1 THEN {<<p>> : p \in EpPoints}
    ELSE UNION {{Append(r, q) : q \in {q \in EpPoints : Aligned(r[Len(r)], q)}}
                : r \in EpRoutesOf(n - 1)}

EpRoutes == UNION {EpRoutesOf(n) : n \in 2..(MaxBends + 2)}

\* An ElkSection; bendPoints is optional and absent on some straight
\* sections.
ElkSection(r) ==
    [startPoint |-> r[1], bendPoints |-> SubSeq(r, 2, Len(r) - 1),
     endPoint |-> r[Len(r)]]
EpSections ==
    {ElkSection(r) : r \in EpRoutes}
        \cup {[startPoint |-> r[1], endPoint |-> r[2]] : r \in EpRoutesOf(2)}

\* [section.startPoint, ...(section.bendPoints ?? []), section.endPoint]
SectionPoints(section) ==
    <<section.startPoint>>
        \o (IF "bendPoints" \in DOMAIN section THEN section.bendPoints
            ELSE <<>>)
        \o <<section.endPoint>>

\* Math.sqrt(dx * dx + dy * dy) of a segment along one axis.
SegLen(dx, dy) == Abs(dx) + Abs(dy)

\* The commands of the path string: "M x y", "L x y" and "Q cx cy x y".
MoveTo(p) == [cmd |-> "M", ctrl |-> Null, at |-> p]
LineTo(p) == [cmd |-> "L", ctrl |-> Null, at |-> p]
QuadTo(c, p) == [cmd |-> "Q", ctrl |-> c, at |-> p]

\* The loop body with the radius left at cornerRadius.
CornerCommandsUnclamped(points, i, cornerRadius) ==
    LET prev == points[i - 1]
        curr == points[i]
        next == points[i + 1]
        dx1 == curr.x - prev.x
        dy1 == curr.y - prev.y
        dx2 == next.x - curr.x
        dy2 == next.y - curr.y
        len1 == SegLen(dx1, dy1)
        len2 == SegLen(dx2, dy2)
        r2 == 2 * cornerRadius
        b1 == Point(2 * curr.x - (dx1 \div len1) * r2,
                    2 * curr.y - (dy1 \div len1) * r2)
        b2 == Point(2 * curr.x + (dx2 \div len2) * r2,
                    2 * curr.y + (dy2 \div len2) * r2)
    IN  IF len1 = 0 \/ len2 = 0
        THEN <<LineTo(Twice(curr))>>
        ELSE <<LineTo(b1), QuadTo(Twice(curr), b2)>>

\* The body of the loop of elkSectionsToPath for the interior point i: what
\* it appends to d.  r2 is twice r = Math.min(cornerRadius, len1/2, len2/2).
CornerCommands(points, i, cornerRadius) ==
    LET prev == points[i - 1]
        curr == points[i]
        next == points[i + 1]
        dx1 == curr.x - prev.x
        dy1 == curr.y - prev.y
        dx2 == next.x - curr.x
        dy2 == next.y - curr.y
        len1 == SegLen(dx1, dy1)
        len2 == SegLen(dx2, dy2)
        r2 == Min(2 * cornerRadius, Min(len1, len2))
        b1 == Point(2 * curr.x - (dx1 \div len1) * r2,
                    2 * curr.y - (dy1 \div len1) * r2)
        b2 == Point(2 * curr.x + (dx2 \div len2) * r2,
                    2 * curr.y + (dy2 \div len2) * r2)
    IN  IF len1 = 0 \/ len2 = 0
        THEN <<LineTo(Twice(curr))>>
        ELSE <<LineTo(b1), QuadTo(Twice(curr), b2)>>

\* for (let i = 1; i < points.length - 1; i++), from the interior point i on.
RECURSIVE CornersFrom(_, _, _)
CornersFrom(points, i, cornerRadius) ==
    IF i > Len(points) - 1 THEN <<>>
    ELSE CornerCommands(points, i, cornerRadius)
            \o CornersFrom(points, i + 1, cornerRadius)

\* The empty string is the empty command list.
elkSectionsToPath(sections, cornerRadius) ==
    IF Len(sections) = 0 THEN <<>>
    ELSE LET points == SectionPoints(sections[1])
         IN  IF Len(points) < 2 THEN <<>>
             ELSE <<MoveTo(Twice(points[1]))>>
                    \o CornersFrom(points, 2, cornerRadius)
                    \o <<LineTo(Twice(points[Len(points)]))>>

\* The anchor taken on the first segment whatever the length of the route.
elkSectionsLabelPositionFirstSegment(sections) ==
    IF Len(sections) = 0 THEN Point(0, 0)
    ELSE LET points == SectionPoints(sections[1])
         IN  Point(points[1].x + points[2].x, points[1].y + points[2].y)

\* midIdx, p1 and p2 are the source's 0-based indices, read at index + 1;
\* the anchor is in half units: twice (p1 + p2) / 2.
elkSectionsLabelPosition(sections) ==
    IF Len(sections) = 0 THEN Point(0, 0)
    ELSE LET points == SectionPoints(sections[1])
             midIdx == Len(points) \div 2
             p1 == points[(IF midIdx - 1 > 0 THEN midIdx - 1 ELSE 0) + 1]
             p2 == points[midIdx + 1]
         IN  Point(p1.x + p2.x, p1.y + p2.y)

\* What getSmoothStepPath of React Flow gives for an edge without a route.
SmoothStep == [smoothStep |-> TRUE]

EdgePathInit ==
    /\ epSections \in {<<>>} \cup {<<section>> : section \in EpSections}
    /\ epPath = Null
    /\ epLabel = Null
    /\ NsParked
    /\ EtParked
    /\ ViewParked
    /\ HookParked
    /\ PollParked
    /\ TopoParked
    /\ DetailParked

\* One render of the PipelineEdge component.
PipelineEdge ==
    /\ epPath = Null
    /\ IF Len(epSections) > 0
       THEN /\ epPath' = elkSectionsToPath(epSections, DefaultCornerRadius)
            /\ epLabel' = elkSectionsLabelPosition(epSections)
       ELSE /\ epPath' = SmoothStep
            /\ epLabel' = SmoothStep
    /\ UNCHANGED <<epSections, nsVars, etVars, viewVars, hookVars, pollVars,
                   topoVars, detailVars>>

EdgePathNext == PipelineEdge

SpecEdgePath == EdgePathInit /\ [][EdgePathNext]_vars

\* The points of the routed edge, and whether its path has been computed.
EpRoute == SectionPoints(epSections[1])
EpRouted == Len(epSections) > 0 /\ epPath # Null

\* Distance between two points of one axis-parallel line, and membership of
\* the segment from a to b of such a line (all in half units).
EpDist(p, q) == Abs(p.x - q.x) + Abs(p.y - q.y)
OnSegment(p, a, b) == EpDist(a, p) + EpDist(p, b) = EpDist(a, b)

\* The interior point i has a zero-length adjacent segment.
EpDegenerate(points, i) ==
    points[i - 1] = points[i] \/ points[i] = points[i + 1]

\* The number of path commands that precede those of the interior point i.
RECURSIVE EpOffset(_, _)
EpOffset(points, i) ==
    IF i <= 2 THEN 1
    ELSE EpOffset(points, i - 1)
            + (IF EpDegenerate(points, i - 1) THEN 1 ELSE 2)

EpEntry(i) == epPath[EpOffset(EpRoute, i) + 1]
EpExit(i) == epPath[EpOffset(EpRoute, i) + 2]

\* C31: at every interior point whose two adjacent segments have non-zero
\* length the radius used is min(cornerRadius, len1/2, len2/2): the curve
\* is entered and left on the adjacent segments, no further than half a
\* segment from the bend, and on a segment shared by two bends the exit of
\* the first curve does not lie past the entry of the next; an interior
\* point with a zero-length adjacent segment gets a straight line and no
\* curve.
C31_CornerRadiusClamped ==
    EpRouted =>
        LET points == EpRoute
            n == Len(points)
            bend(i) == Twice(points[i])
            len1(i) == EpDist(bend(i - 1), bend(i))
            len2(i) == EpDist(bend(i), bend(i + 1))
        IN  /\ Len(epPath) = EpOffset(points, n) + 1
            /\ \A i \in 2..(n - 1) :
                  IF EpDegenerate(points, i)
                  THEN /\ EpEntry(i) = LineTo(bend(i))
                       /\ EpOffset(points, i + 1) = EpOffset(points, i) + 1
                  ELSE /\ EpEntry(i).cmd = "L"
                       /\ EpExit(i).cmd = "Q"
                       /\ EpExit(i).ctrl = bend(i)
                       /\ OnSegment(EpEntry(i).at, bend(i - 1), bend(i))
                       /\ OnSegment(EpExit(i).at, bend(i), bend(i + 1))
                       /\ 2 * EpDist(EpEntry(i).at, bend(i))
                            = Min(4 * DefaultCornerRadius,
                                  Min(len1(i), len2(i)))
                       /\ EpDist(EpExit(i).at, bend(i))
                            = EpDist(EpEntry(i).at, bend(i))
                       /\ 2 * EpDist(EpEntry(i).at, bend(i)) <= len1(i)
                       /\ 2 * EpDist(EpExit(i).at, bend(i)) <= len2(i)
            /\ \A i \in 2..(n - 2) :
                  (~EpDegenerate(points, i) /\ ~EpDegenerate(points, i + 1))
                      => EpDist(bend(i), EpExit(i).at)
                            + EpDist(EpEntry(i + 1).at, bend(i + 1))
                         <= len2(i)
            /\ Cardinality({k \in 1..Len(epPath) : epPath[k].cmd = "Q"})
                  = Cardinality({i \in 2..(n - 1) : ~EpDegenerate(points, i)})

\* A route with two bends on a shared segment shorter than twice the corner
\* radius, between two segments longer than that: both curves are clamped
\* and meet in the middle of the shared segment.
C31_Witness ==
    /\ EpRouted /\ Len(EpRoute) = 4
    /\ EpDist(EpRoute[1], EpRoute[2]) > 2 * DefaultCornerRadius
    /\ EpDist(EpRoute[2], EpRoute[3]) > 0
    /\ EpDist(EpRoute[2], EpRoute[3]) < 2 * DefaultCornerRadius
    /\ EpDist(EpRoute[3], EpRoute[4]) > 2 * DefaultCornerRadius
    /\ EpExit(2).at = EpEntry(3).at

\* C32: for a route of n >= 2 points the label anchor is the midpoint of
\* points[floor(n/2)-1] and points[floor(n/2)] (0-based), which for a
\* two-point route is the midpoint of start and end.
C32_LabelAtMiddleSegment ==
    EpRouted =>
        LET points == EpRoute
            n == Len(points)
            a == points[(n \div 2) - 1 + 1]
            b == points[(n \div 2) + 1]
        IN  /\ n >= 2
            /\ epLabel = Point(a.x + b.x, a.y + b.y)
            /\ n = 2 => epLabel = Point(points[1].x + points[n].x,
                                        points[1].y + points[n].y)

\* A route of four distinct points: the anchor is on its second segment,
\* and is neither the midpoint of the first nor of the last.
C32_Witness ==
    /\ EpRouted /\ Len(EpRoute) = 4
    /\ epLabel = Point(EpRoute[2].x + EpRoute[3].x, EpRoute[2].y + EpRoute[3].y)
    /\ epLabel # Point(EpRoute[1].x + EpRoute[2].x, EpRoute[1].y + EpRoute[2].y)
    /\ epLabel # Point(EpRoute[3].x + EpRoute[4].x, EpRoute[3].y + EpRoute[4].y)

\* ------------------------------ PipelineView: progress of the push effect
\* React runs a pending effect after the render that scheduled it, and the
\* promises of load() settle; the push channel owes the view nothing.
SpecLive ==
    /\ Spec
    /\ WF_vars(WsEffect)
    /\ WF_vars(FetchResolve \/ FetchReject)
    /\ WF_vars(LayoutResolve \/ LayoutReject)

\* C33: every push snapshot the view holds is eventually the one merged
\* into the displayed graph, unless the load failed; a later snapshot takes
\* its place as the held one.  In particular a snapshot that arrives before
\* the initial layout has completed is merged once the layout completes.
C33_HeldPushEventuallyDisplayed ==
    (wsState # Null) ~> (pushApplied = wsState \/ error # "null")

\* ------------------------------------ useWebSocket: a re-run of the effect
\* The contextId prop changes: connect is a new callback, React runs the
\* cleanup of the old effect and then the new effect, in one commit.  The
\* cleanup sets unmounted.current, clears the last timer and closes the
\* current socket; the effect clears unmounted.current and calls the new
\* connect().  One change of contextId is followed, early in the run.
effectRerun ==
    /\ ~unmounted
    /\ CurrentContextId = ContextId
    /\ Len(sockets) + 1 < MaxRerunSockets
    /\ timers' = IF retryTimer # 0 /\ timers[retryTimer].status = "pending"
                 THEN [timers EXCEPT ![retryTimer].status = "cleared"]
                 ELSE timers
    /\ sockets' = Append(IF wsRef # 0
                         THEN [sockets EXCEPT ![wsRef] = close(@)]
                         ELSE sockets,
                         Socket(NextContextId))
    /\ wsRef' = Len(sockets) + 1
    /\ unmounted' = FALSE
    /\ lastEvent' = "rerun"
    /\ UNCHANGED <<hookState, connected, retryMs, retryTimer, failRun,
                   droppedOn, teardownFrom, nsVars, etVars, viewVars,
                   pollVars, topoVars, detailVars, pathVars>>

WsRerunNext ==
    \/ WsNext
    \/ effectRerun

SpecWsRerun == WsInit /\ [][WsRerunNext]_vars

LiveSockets ==
    {i \in 1..Len(sockets) : sockets[i].readyState \in {"connecting", "open"}}
PendingTimers == {t \in 1..Len(timers) : timers[t].status = "pending"}

\* C34: across a re-run of the effect at most one socket of the hook is
\* open or connecting and at most one reconnect timer is pending; no
\* reconnect to the old contextId is scheduled, no socket to it is opened
\* and no snapshot of the old pipeline is stored after the re-run.
C34_OneChannelAcrossRerun ==
    /\ [](~unmounted =>
            /\ Cardinality(LiveSockets) <= 1
            /\ Cardinality(PendingTimers) <= 1
            /\ \A t \in PendingTimers :
                  timers[t].contextId = CurrentContextId
            /\ \A i \in LiveSockets : sockets[i].url = CurrentContextId)
    /\ [][(CurrentContextId = NextContextId /\ hookState' # hookState
            /\ "pipeline_id" \in DOMAIN hookState')
             => hookState'.pipeline_id = NextContextId]_vars

\* --------------------------------------- usePolling: overlapping requests
ResolvedRequests ==
    {r \in 1..Len(requests) : requests[r].status = "resolved"}

\* C35: once every request in flight has settled, the held data is the
\* response of the most recently issued successful request: a late response
\* to an older request does not replace the response to a newer one.
C35_LatestRequestWins ==
    ((\A r \in 1..Len(requests) : requests[r].status # "pending")
        /\ ResolvedRequests # {})
    => \E r \in ResolvedRequests :
          /\ \A q \in ResolvedRequests : q <= r
          /\ pollData = requests[r].result

\* -------------------------------- PipelineView: overlapping detail reads
\* The detail read of the current selection: the last one issued.
CurrentRead == Len(detailReads)

\* C36: once the read of the selected node has resolved, the detail held is
\* that node's; a late response to the read of a node selected before does
\* not replace it, and the loading flag stays set while the read of the
\* selected node is in flight.  A read is issued on a selection change only.
C36_DetailBelongsToSelection ==
    /\ [](selectedNodeId = "null" => detailReads = <<>>)
    /\ [](detailReads # <<>> =>
            /\ detailReads[CurrentRead].nodeId = selectedNodeId
            /\ detailReads[CurrentRead].status = "pending" => detailLoading
            /\ detailReads[CurrentRead].status = "resolved" =>
                  nodeDetail = NodeDetailOf(selectedNodeId))
    /\ [][detailReads' # detailReads /\ Len(detailReads') > Len(detailReads)
            => selectedNodeId' # selectedNodeId]_vars

\* ---------------------------- useWebSocket: the channel of a mounted hook
\* C37: while the hook is mounted with a fixed contextId there is never
\* both a pending reconnect timer and a socket that is open or connecting,
\* never more than one of either, and the connected flag is set only while
\* the current socket has opened and not yet closed; a disconnect leaves
\* the held snapshot as it was.
C37_OneSocketOrOneTimer ==
    /\ [](~unmounted =>
            /\ Cardinality(LiveSockets) <= 1
            /\ Cardinality(PendingTimers) <= 1
            /\ ~(LiveSockets # {} /\ PendingTimers # {})
            /\ connected =>
                  (wsRef # 0 /\ sockets[wsRef].readyState = "open"
                     /\ sockets[wsRef].opened))
    /\ [][lastEvent' = "close" => hookState' = hookState]_vars

\* A socket that had opened and delivered a snapshot has dropped: the
\* reconnect timer is pending, no socket is live and the snapshot is held.
C37_Witness ==
    /\ ~unmounted /\ lastEvent = "close" /\ ~connected
    /\ hookState # Null /\ "pipeline_id" \in DOMAIN hookState
    /\ Cardinality(PendingTimers) = 1 /\ LiveSockets = {}
    /\ timers[Len(timers)].socketOpened

\* ------------------------------- updateNodeData: independence of history
\* The fields updateNodeData derives from the snapshot, per node.
DerivedFields(nodeList) ==
    [i \in 1..Len(nodeList) |->
        [id |-> nodeList[i].id,
         state |-> nodeList[i].data.state,
         durationMs |-> nodeList[i].data.durationMs,
         tokensIn |-> nodeList[i].data.tokensIn,
         tokensOut |-> nodeList[i].data.tokensOut,
         loopCount |-> nodeList[i].data.loopCount]]

\* C38: in its derived fields updateNodeData is idempotent and independent
\* of history: merging S1 and then S2 into a node list gives the state,
\* duration, token counts and loop count that merging S2 alone gives, and
\* merging a snapshot twice gives what merging it once gives; a node absent
\* from the snapshot's run map is reset to pending with zero duration and
\* tokens.  Stated of every node list the view holds with the push snapshot
\* S2 it holds and every push snapshot S1, and of the merges the view
\* performs.
C38_MergeIndependentOfHistory ==
    /\ [](wsState # Null =>
            LET once == updateNodeData(nodes, wsState)
            IN  /\ \A S1 \in PushSnapshots :
                      DerivedFields(updateNodeData(
                          updateNodeData(nodes, S1), wsState))
                        = DerivedFields(once)
                /\ DerivedFields(updateNodeData(once, wsState))
                      = DerivedFields(once)
                /\ \A i \in 1..Len(nodes) :
                      nodes[i].id \notin DOMAIN wsState.node_runs =>
                          /\ once[i].data.state = "pending"
                          /\ once[i].data.durationMs = 0
                          /\ once[i].data.tokensIn = 0
                          /\ once[i].data.tokensOut = 0)
    /\ [][pushApplied' # pushApplied =>
             DerivedFields(nodes')
               = DerivedFields(updateNodeData(initialNodes, pushApplied'))]_vars

\* Snapshots have been merged one after another and the node list differs
\* from what merging the last one into the initial layout gives (an earlier
\* snapshot left its node info behind), while a node the layout showed as
\* running with a non-zero loop count or duration is back to pending.
C38_Witness ==
    /\ pushApplied # Null /\ layoutDone /\ state = pushApplied
    /\ nodes # updateNodeData(initialNodes, pushApplied)
    /\ \E i \in 1..Len(nodes) :
          /\ nodes[i].id \notin DOMAIN pushApplied.node_runs
          /\ nodes[i].data.state = "pending"
          /\ nodes[i].data.durationMs = 0

\* ------------------------------------ topology handed to the layout engine
\* C39: on both extraction paths every edge of the topology has its source
\* and its target in the extracted node list, so the layout engine is never
\* handed an edge that references a missing node.
C39_TopologyWellFormed ==
    tpDone =>
        \A i \in 1..Len(tpTopology.dotEdges) :
            /\ \E k \in 1..Len(tpTopology.dotNodes) :
                  tpTopology.dotNodes[k] = tpTopology.dotEdges[i].source
            /\ \E k \in 1..Len(tpTopology.dotNodes) :
                  tpTopology.dotNodes[k] = tpTopology.dotEdges[i].target

====
